---- MODULE Spec2Model ----
(***************************************************************************)
(* A model of the JIMM federation engine: controller placement (AddModel), *)
(* the credential propagator (UpdateCredential / RevokeCredential) and     *)
(* model access changes (grant / revoke).                                  *)
(***************************************************************************)
EXTENDS Integers, Sequences, FiniteSets, TLC

(***************************************************************************)
(* Bounds of the model.                                                    *)
(***************************************************************************)
MaxLen == 3

\* dbmodel.CloudRegionControllerPrioritySupported / ...Deployed
CloudRegionControllerPrioritySupported == 1
CloudRegionControllerPriorityDeployed == 10

ControllerIDs == {1, 2}
RegionIDs == {1, 2}
\* the priorities a catalog entry is created with: by AddController, and 0
\* by a controller stored with an entry that names no priority
Priorities == {0, CloudRegionControllerPrioritySupported,
               CloudRegionControllerPriorityDeployed}

VARIABLES
    \* shuffleRegionControllers / possibleControllers
    controllers,       \* the slice handed to shuffleRegionControllers
    shuffled,          \* the slice after shuffle(...)
    candidates,        \* the slice after sort.SliceStable
    shufflePc,
    primaryControllers,   \* cr.PrimaryControllers
    secondaryControllers, \* cr.SecondaryControllers
    possible,             \* result of possibleControllers
    possiblePc,
    \* AddModel
    regionControllers, \* cloud.Regions[r].Controllers, for each region of the cloud
    cloudCredentials,  \* the state of each user's credential for the cloud
    dbModels,          \* the model rows of the catalog
    nextModelID,       \* the next primary key of a model row
    ctlModels,         \* the models each controller holds
    req,               \* the AddModel requests: position and builder
    \* UpdateCredential / RevokeCredential
    credential,        \* the catalog's row of the credential
    vaultClient,       \* whether a secret store is configured
    vault,             \* the version of the attributes in the secret store
    updateCredentials, \* the controllers marked as needing the credential
    ctlCredential,     \* the version of the credential each controller holds
    ctlCalls,          \* the update and revoke calls the controllers received
                       \* in the running operation
    modelsWithCredential, \* the models of the catalog that use the credential
    credOp,            \* the running credential operation
    credCount,         \* the credential operations started
    \* GrantModelAccess / RevokeModelAccess / GrantModel / RevokeModel
    modelUsers,        \* the access the catalog records for each user of the model
    accessOp,          \* the running access operation
    accessLog,         \* the calls the running operation made to the
                       \* controller and to the catalog
    accessPrev,        \* the calls the operation before it made
    accessCount,       \* the access operations started
    modelLife,         \* the life the catalog records for the model
    \* JEM.GetModel
    lookupModel,       \* the model document and whether the database holds it
    lookupID,          \* the identity of the request: a user and its groups
    lookupRes,         \* the result of GetModel for each access asked for
    \* groups and OpenFGA tuples
    groupTable,        \* the groups of the database: the name of each group id
    tupleStore,        \* the tuples OpenFGA holds
    removeOp,          \* the running OFGAClient.RemoveGroup
    groupOps,          \* the RemoveGroup calls started
    nextGroupID,       \* the id the next group gets
    groupCalls,        \* the AddGroup and RenameGroup call of each caller
    applyConfig,       \* which secret stores are configured
    applyStore,        \* a credential's row, secret, marks and controller copies
    applyCall,         \* the credential and flags UpdateCredential is called with
    applyEnv,          \* how the stores and controllers answered the first call
    applySame,         \* whether they answered every later call the same way
    applyOnce,         \* applyStore after the first call
    applyPc,           \* how many calls have been made
    controllerRows,    \* the controller rows of the catalog
    controllerSecrets, \* the controllers whose credentials the secret store holds
    poolClosed,        \* Pool.closed
    refCount,          \* Pool.refCount
    jem,               \* the JEM instances obtained from the pool: open or closed
    cacheCloses,       \* the calls of connCache.Close
    poolCall,          \* the last call on the pool or on an instance
    poolOps,           \* the calls made
    cloneOfClosed,     \* whether Clone was called on a closed instance
    cacheEntry,        \* the entry of the connection cache for the controller UUID
    dialCount,         \* the runs of the dialer
    dialResult,        \* the outcome of each run of the dialer
    openCall,          \* the open call of each caller
    watcher,           \* the modelSummaryWatcher and the position of its loop
    hub,               \* the last summary published for each model UUID
    watchConn,         \* the connections opened for watchers and closed again
    watchCtx,          \* whether the context of the watcher is done
    watchCalls,        \* the calls of WatchAllModelSummaries
    watchRes,          \* the error of the last call
    session,           \* the state of the login session and the access it has computed
    loginCall,         \* the last call of the token generator and how far it got
    jwtParams,         \* the claims the JWT service signed last
    tokens,            \* number of tokens issued
    logins,            \* number of calls of MakeLoginToken and MakeToken
    catalog,           \* the models of the catalog: owner, controller and users of each
    modelAdmins,       \* the administrator relations on models: pairs of user and model
    migCall,           \* the last call of ImportModel or UpdateMigratedModel: arguments and result
    migOps,            \* number of calls made
    foKind,            \* which operation fanned out: update, check or revoke
    foTasks,           \* the fan-out goroutines: what each has sent and whether it closed its JEM
    foCh,              \* the buffered result channel
    foMerge,           \* the aggregator: results awaited, results merged, what it returned
    foCtx,             \* whether the request context is done
    gcID,              \* the identity of the request for a credential
    gcCred,            \* the credential asked for: its owner and its read ACL
    gcRes,             \* what GetCredential returns when the database holds the credential and when it does not
    miUsers,           \* the access of each user of the model of the catalog, "" for no entry
    miMachines,        \* the machines of the model of the catalog
    miCall,            \* the last call of ModelInfo and what it returned
    credentialStore,   \* whether JIMM has a credential store (j.CredentialStore != nil)
    ctlRows,           \* the controller rows of the database, by name
    ctlSecrets,        \* the admin password the credential store holds for each controller name, "" for none
    cloudRows,         \* the cloud rows of the database
    regionRows,        \* the cloud region rows of the database
    ctlRelations,      \* the relations of controllers to clouds and to JIMM
    ctlCall,           \* the last call of AddController and its error
    ctlOps             \* the number of calls of AddController

shuffleVars == <<controllers, shuffled, candidates, shufflePc,
                 primaryControllers, secondaryControllers, possible, possiblePc>>

addModelVars == <<regionControllers, cloudCredentials, dbModels, nextModelID,
                  ctlModels, req>>

credentialVars == <<credential, vaultClient, vault, updateCredentials,
                    ctlCredential, ctlCalls, modelsWithCredential, credOp,
                    credCount>>

accessVars ==
    <<modelUsers, accessOp, accessLog, accessPrev, accessCount, modelLife>>

lookupVars == <<lookupModel, lookupID, lookupRes>>

groupVars == <<groupTable, tupleStore, removeOp, groupOps, nextGroupID,
               groupCalls>>

applyVars == <<applyConfig, applyStore, applyCall, applyEnv, applySame,
               applyOnce, applyPc, controllerRows, controllerSecrets>>

poolVars == <<poolClosed, refCount, jem, cacheCloses, poolCall, poolOps, cloneOfClosed>>

cacheVars == <<cacheEntry, dialCount, dialResult, openCall>>

watcherVars == <<watcher, hub, watchConn, watchCtx, watchCalls, watchRes>>

loginVars == <<session, loginCall, jwtParams, tokens, logins>>

catalogVars == <<catalog, modelAdmins, migCall, migOps>>

fanoutVars == <<foKind, foTasks, foCh, foMerge, foCtx>>

getCredVars == <<gcID, gcCred, gcRes>>

modelInfoVars == <<miUsers, miMachines, miCall>>

ctlVars == <<credentialStore, ctlRows, ctlSecrets, cloudRows, regionRows, ctlRelations, ctlCall, ctlOps>>

vars == <<shuffleVars, addModelVars, credentialVars, accessVars, lookupVars,
         groupVars, applyVars, poolVars, cacheVars, watcherVars, loginVars, catalogVars, fanoutVars, getCredVars, modelInfoVars, ctlVars>>

notShuffleVars == <<addModelVars, credentialVars, accessVars,
        lookupVars, groupVars,
        applyVars,
        poolVars,
        cacheVars,
        watcherVars,
        loginVars,
        catalogVars,
        fanoutVars,
        getCredVars,
        modelInfoVars,
        ctlVars>>
notAddModelVars == <<shuffleVars, credentialVars, accessVars,
        lookupVars, groupVars,
        applyVars,
        poolVars,
        cacheVars,
        watcherVars,
        loginVars,
        catalogVars,
        fanoutVars,
        getCredVars,
        modelInfoVars,
        ctlVars>>
notCredentialVars == <<shuffleVars, addModelVars, accessVars,
        lookupVars, groupVars,
        applyVars,
        poolVars,
        cacheVars,
        watcherVars,
        loginVars,
        catalogVars,
        fanoutVars,
        getCredVars,
        modelInfoVars,
        ctlVars>>
notAccessVars == <<shuffleVars, addModelVars, credentialVars,
        lookupVars, groupVars,
        applyVars,
        poolVars,
        cacheVars,
        watcherVars,
        loginVars,
        catalogVars,
        fanoutVars,
        getCredVars,
        modelInfoVars,
        ctlVars>>
notLookupVars == <<shuffleVars, addModelVars, credentialVars, accessVars,
        groupVars,
        applyVars,
        poolVars,
        cacheVars,
        watcherVars,
        loginVars,
        catalogVars,
        fanoutVars,
        getCredVars,
        modelInfoVars,
        ctlVars>>
notGroupVars == <<shuffleVars, addModelVars, credentialVars, accessVars, lookupVars,
        applyVars,
        poolVars,
        cacheVars,
        watcherVars,
        loginVars,
        catalogVars,
        fanoutVars,
        getCredVars,
        modelInfoVars,
        ctlVars>>
notApplyVars == <<shuffleVars, addModelVars, credentialVars, accessVars, lookupVars, groupVars,
        poolVars,
        cacheVars,
        watcherVars,
        loginVars,
        catalogVars,
        fanoutVars,
        getCredVars,
        modelInfoVars,
        ctlVars>>
notPoolVars == <<shuffleVars, addModelVars, credentialVars, accessVars, lookupVars, groupVars, applyVars,
        cacheVars,
        watcherVars,
        loginVars,
        catalogVars,
        fanoutVars,
        getCredVars,
        modelInfoVars,
        ctlVars>>
notCacheVars == <<shuffleVars, addModelVars, credentialVars, accessVars, lookupVars, groupVars, applyVars, poolVars,
        watcherVars,
        loginVars,
        catalogVars,
        fanoutVars,
        getCredVars,
        modelInfoVars,
        ctlVars>>
notWatcherVars == <<shuffleVars, addModelVars, credentialVars, accessVars, lookupVars, groupVars, applyVars, poolVars, cacheVars,
        loginVars,
        catalogVars,
        fanoutVars,
        getCredVars,
        modelInfoVars,
        ctlVars>>
notLoginVars == <<shuffleVars, addModelVars, credentialVars, accessVars, lookupVars, groupVars, applyVars, poolVars, cacheVars, watcherVars,
        catalogVars,
        fanoutVars,
        getCredVars,
        modelInfoVars,
        ctlVars>>
notCatalogVars == <<shuffleVars, addModelVars, credentialVars, accessVars, lookupVars, groupVars, applyVars, poolVars, cacheVars, watcherVars, loginVars,
        fanoutVars,
        getCredVars,
        modelInfoVars,
        ctlVars>>
notFanoutVars == <<shuffleVars, addModelVars, credentialVars, accessVars, lookupVars, groupVars, applyVars, poolVars, cacheVars, watcherVars, loginVars, catalogVars,
        getCredVars,
        modelInfoVars,
        ctlVars>>
notGetCredVars == <<shuffleVars, addModelVars, credentialVars, accessVars, lookupVars, groupVars, applyVars, poolVars, cacheVars, watcherVars, loginVars, catalogVars, fanoutVars,
        modelInfoVars,
        ctlVars>>
notModelInfoVars == <<shuffleVars, addModelVars, credentialVars, accessVars, lookupVars, groupVars, applyVars, poolVars, cacheVars, watcherVars, loginVars, catalogVars, fanoutVars, getCredVars,
        ctlVars>>
notCtlVars == <<shuffleVars, addModelVars, credentialVars, accessVars, lookupVars, groupVars, applyVars, poolVars, cacheVars, watcherVars, loginVars, catalogVars, fanoutVars, getCredVars, modelInfoVars>>

(***************************************************************************)
(* The state of each part of the program when nothing has used it.         *)
(***************************************************************************)
\* no controller path given to possibleControllers
NoPath == 0
\* no credential, or no version of it
NoCredential == -1

IdleShuffle ==
    /\ controllers = <<>>
    /\ shuffled = <<>>
    /\ candidates = <<>>
    /\ shufflePc = "idle"
    /\ primaryControllers = <<>>
    /\ secondaryControllers = <<>>
    /\ possible = [arg |-> NoPath, err |-> "", ctls |-> <<>>]
    /\ possiblePc = "idle"

IdleAddModel ==
    /\ regionControllers = [r \in RegionIDs |-> <<>>]
    /\ cloudCredentials = <<>>
    /\ dbModels = {}
    /\ nextModelID = 1
    /\ ctlModels = {}
    /\ req = <<>>

NoCredOp ==
    [kind |-> "none", pc |-> "idle", n |-> 0, flags |-> 0,
     controllers |-> {}, pending |-> {}, ch |-> <<>>,
     waiting |-> 0, failed |-> {}, firstError |-> "", written |-> FALSE,
     fanout |-> FALSE, ctx |-> "", res |-> ""]

IdleCredential ==
    /\ credential = [found |-> FALSE, Controllers |-> {}, version |-> NoCredential,
                     Revoked |-> FALSE, AttributesInVault |-> FALSE]
    /\ vaultClient = FALSE
    /\ vault = NoCredential
    /\ updateCredentials = {}
    /\ ctlCredential = <<>>
    /\ ctlCalls = {}
    /\ modelsWithCredential = 0
    /\ credOp = NoCredOp
    /\ credCount = 0

NoAccessOp ==
    [kind |-> "none", pc |-> "idle", n |-> 0, u |-> "", ut |-> "",
     access |-> "", res |-> ""]

IdleAccess ==
    /\ modelUsers = <<>>
    /\ accessOp = NoAccessOp
    /\ accessLog = <<>>
    /\ accessPrev = <<>>
    /\ accessCount = 0
    /\ modelLife = ""

IdleLookup ==
    /\ lookupModel = <<>>
    /\ lookupID = <<>>
    /\ lookupRes = <<>>

NoRemoveOp ==
    [pc |-> "idle", group |-> 0, phase |-> 0, token |-> 0, resp |-> 0,
     first |-> TRUE, res |-> "", removed |-> FALSE]

NoGroupCall ==
    [kind |-> "none", pc |-> "idle", name |-> "", newName |-> "", res |-> ""]

IdleGroup ==
    /\ groupTable = {}
    /\ tupleStore = {}
    /\ removeOp = NoRemoveOp
    /\ groupOps = 0
    /\ nextGroupID = 1
    /\ groupCalls = <<>>

NoRow ==
    [found |-> FALSE, content |-> NoCredential, Attributes |-> NoCredential,
     Controllers |-> {}, Revoked |-> FALSE, AttributesInVault |-> FALSE]

NoEnv == [get |-> FALSE, checks |-> <<>>, write |-> "ok", push |-> <<>>]

NoControllerRow == [found |-> FALSE, AdminUser |-> "", AdminPassword |-> ""]

ControllerNames == {"c1", "c2"}

IdleApply ==
    /\ applyConfig = [VaultClient |-> FALSE, CredentialStore |-> FALSE]
    /\ applyStore = [row |-> NoRow, secret |-> NoCredential, updates |-> {},
                     copies |-> [c \in ControllerIDs |-> NoCredential]]
    /\ applyCall = [content |-> NoCredential, Controllers |-> {},
                    Revoked |-> FALSE, flags |-> 0]
    /\ applyEnv = NoEnv
    /\ applySame = TRUE
    /\ applyOnce = applyStore
    /\ applyPc = "none"
    /\ controllerRows = [n \in ControllerNames |-> NoControllerRow]
    /\ controllerSecrets = {}

NoPoolCall == [op |-> "", j |-> 0, panic |-> FALSE]

IdlePool ==
    /\ poolClosed = FALSE
    /\ refCount = 0
    /\ jem = <<>>
    /\ cacheCloses = 0
    /\ poolCall = NoPoolCall
    /\ poolOps = 0
    /\ cloneOfClosed = FALSE

NoEntryCached == [state |-> "none", dial |-> 0]

IdleCache ==
    /\ cacheEntry = NoEntryCached
    /\ dialCount = 0
    /\ dialResult = <<>>
    /\ openCall = <<>>

NoWatcher == [pc |-> "none", id |-> "", stopped |-> FALSE, cause |-> "",
              batches |-> 0]

IdleWatcher ==
    /\ watcher = NoWatcher
    /\ hub = <<>>
    /\ watchConn = [opened |-> 0, closed |-> 0]
    /\ watchCtx = FALSE
    /\ watchCalls = 0
    /\ watchRes = ""

NoSession == [state |-> "Unauthenticated", user |-> "", access |-> {}]

NoLoginCall == [op |-> "", step |-> "", passed |-> {}, clouds |-> {},
                err |-> "", token |-> FALSE, before |-> 0]

NoParams == [user |-> "", access |-> {}]

IdleLogin ==
    /\ session = NoSession
    /\ loginCall = NoLoginCall
    /\ jwtParams = NoParams
    /\ tokens = 0
    /\ logins = 0

NoModel == [present |-> FALSE, owner |-> "", controller |-> "", users |-> {}]

NoMigCall == [op |-> "", model |-> "", controller |-> "", owner |-> "",
              admin |-> FALSE, dialOK |-> FALSE, known |-> FALSE,
              from |-> "", err |-> ""]

IdleCatalog ==
    /\ catalog = <<>>
    /\ modelAdmins = {}
    /\ migCall = NoMigCall
    /\ migOps = 0

NoMerge == [pc |-> "none", n |-> 0, models |-> <<>>, firstError |-> "",
            order |-> <<>>, res |-> [models |-> <<>>, err |-> ""]]

IdleFanout ==
    /\ foKind = "none"
    /\ foTasks = <<>>
    /\ foCh = <<>>
    /\ foMerge = NoMerge
    /\ foCtx = FALSE

IdleGetCred ==
    /\ gcID = <<>>
    /\ gcCred = <<>>
    /\ gcRes = <<>>

NoInfoCall ==
    [u |-> "", superuser |-> FALSE, found |-> FALSE, err |-> "",
     data |-> FALSE, users |-> {}, machines |-> {}]

IdleModelInfo ==
    /\ miUsers = <<>>
    /\ miMachines = {}
    /\ miCall = NoInfoCall

NoCtlCall ==
    [name |-> "", password |-> "", admin |-> "", fail |-> "", held |-> "",
     err |-> ""]

IdleCtl ==
    /\ credentialStore = FALSE
    /\ ctlRows = <<>>
    /\ ctlSecrets = <<>>
    /\ cloudRows = {}
    /\ regionRows = {}
    /\ ctlRelations = {}
    /\ ctlCall = NoCtlCall
    /\ ctlOps = 0

(***************************************************************************)
(* Helpers on sequences.                                                   *)
(***************************************************************************)
Range(s) == {s[i] : i \in 1..Len(s)}

IsInjective(s) == \A i, j \in 1..Len(s) : i # j => s[i] # s[j]

\* the injective sequences over S of length at most n
InjSeqs(S, n) ==
    UNION {{s \in [1..k -> S] : IsInjective(s)} : k \in 0..n}

Perms(n) == {p \in [1..n -> 1..n] : \A i, j \in 1..n : i # j => p[i] # p[j]}

\* what the swaps of one shuffle call amount to: s rearranged by permutation p
Permute(s, p) == [i \in 1..Len(s) |-> s[p[i]]]

Pos(s, x) == CHOOSE i \in 1..Len(s) : s[i] = x

(***************************************************************************)
(* shuffleRegionControllers (internal/jimm/model.go)                       *)
(***************************************************************************)
\* the entries dbmodel.CloudRegionControllerPriority a region can hold
Entry(c, r, p) == [ControllerID |-> c, CloudRegionID |-> r, Priority |-> p]

\* the comparison handed to sort.SliceStable, with >= instead of >
LessOrEqual(a, b) == a.Priority >= b.Priority

\* the comparison handed to sort.SliceStable
Less(a, b) == a.Priority > b.Priority

RECURSIVE InsertStable(_, _)
\* x inserted into the sorted s behind every element it is not less than
InsertStable(x, s) ==
    IF s = <<>> THEN <<x>>
    ELSE IF Less(x, s[Len(s)])
         THEN Append(InsertStable(x, SubSeq(s, 1, Len(s) - 1)), s[Len(s)])
         ELSE Append(s, x)

RECURSIVE SliceStable(_)
SliceStable(s) ==
    IF s = <<>> THEN <<>>
    ELSE InsertStable(s[Len(s)], SliceStable(SubSeq(s, 1, Len(s) - 1)))

\* the shuffle alone, without the sort
shuffleOnly(cs, p) == Permute(cs, p)

\* shuffle, then stable sort by descending priority
shuffleRegionControllers(cs, p) == SliceStable(Permute(cs, p))

\* the slices of at most MaxLen entries, one entry a controller
ShuffleInputs ==
    UNION {{[i \in 1..Len(cs) |-> Entry(cs[i], 1, ps[i])] :
                ps \in [1..Len(cs) -> Priorities]} :
           cs \in InjSeqs(1..MaxLen, MaxLen)}

\* the controller path a catalog entry's controller is known by
PathOf(e) == e.ControllerID

ShuffleRegionControllers ==
    /\ shufflePc = "start"
    /\ \E p \in Perms(Len(controllers)) :
          /\ shuffled' = Permute(controllers, p)
          /\ candidates' = shuffleRegionControllers(controllers, p)
    /\ shufflePc' = "sorted"
    /\ UNCHANGED <<controllers, primaryControllers, secondaryControllers,
                   possible, possiblePc>>
    /\ UNCHANGED notShuffleVars

(***************************************************************************)
(* JEM.possibleControllers (internal/jem)                                  *)
(***************************************************************************)
possibleControllers(ctlPathName, crFound, canRead, prim, sec, p1, p2) ==
    IF ctlPathName # NoPath THEN [err |-> "", ctls |-> <<ctlPathName>>]
    ELSE IF ~crFound THEN [err |-> "NotFound", ctls |-> <<>>]
    ELSE IF ~canRead THEN [err |-> "Unauthorized", ctls |-> <<>>]
    ELSE [err |-> "", ctls |-> Permute(prim, p1) \o Permute(sec, p2)]

PossibleControllers ==
    /\ possiblePc = "start"
    /\ shufflePc = "sorted"
    /\ \E ctlPathName \in {NoPath, 1}, crFound \in BOOLEAN,
          canRead \in BOOLEAN,
          p1 \in Perms(Len(primaryControllers)),
          p2 \in Perms(Len(secondaryControllers)) :
          possible' = [arg |-> ctlPathName] @@
              possibleControllers(ctlPathName, crFound, canRead,
                  primaryControllers, secondaryControllers, p1, p2)
    /\ possiblePc' = "done"
    /\ UNCHANGED <<controllers, shuffled, candidates, shufflePc,
                   primaryControllers, secondaryControllers>>
    /\ UNCHANGED notShuffleVars

InitShuffle ==
    /\ IdleAddModel
    /\ IdleCredential
    /\ IdleAccess
    /\ IdleLookup
    /\ IdleGroup
    /\ IdleApply
    /\ IdlePool
    /\ IdleCache
    /\ IdleWatcher
    /\ IdleLogin
    /\ IdleCatalog
    /\ IdleFanout
    /\ IdleGetCred
    /\ IdleModelInfo
    /\ IdleCtl
    /\ controllers \in ShuffleInputs
    /\ shuffled = <<>>
    /\ candidates = <<>>
    /\ shufflePc = "start"
    \* the region's primary controllers are those deployed in it
    /\ primaryControllers =
          LET prim == SelectSeq(controllers,
                  LAMBDA e : e.Priority = CloudRegionControllerPriorityDeployed)
          IN [i \in 1..Len(prim) |-> PathOf(prim[i])]
    /\ secondaryControllers =
          LET sec == SelectSeq(controllers,
                  LAMBDA e : e.Priority # CloudRegionControllerPriorityDeployed)
          IN [i \in 1..Len(sec) |-> PathOf(sec[i])]
    /\ possible = [arg |-> NoPath, err |-> "", ctls |-> <<>>]
    /\ possiblePc = "start"

NextShuffle == ShuffleRegionControllers \/ PossibleControllers

SpecShuffle == InitShuffle /\ [][NextShuffle]_vars

(***************************************************************************)
(* C2: the candidate list is a permutation of the input ordered by         *)
(* non-increasing priority, entries of equal priority keep the order the   *)
(* shuffle gave them, and possibleControllers lists every primary          *)
(* controller before every secondary controller.                           *)
(***************************************************************************)
IsPermutationOf(s, t) == Len(s) = Len(t) /\ Range(s) = Range(t)

C2_ShuffleOrder ==
    /\ shufflePc = "sorted" =>
          /\ IsPermutationOf(shuffled, controllers)
          /\ IsPermutationOf(candidates, controllers)
          /\ \A i, j \in 1..Len(candidates) :
                i < j => candidates[i].Priority >= candidates[j].Priority
          /\ \A i, j \in 1..Len(candidates) :
                (i < j /\ candidates[i].Priority = candidates[j].Priority)
                    => Pos(shuffled, candidates[i]) < Pos(shuffled, candidates[j])
    /\ (possiblePc = "done" /\ possible.err = "" /\ possible.arg = NoPath) =>
          /\ Len(possible.ctls) = Len(primaryControllers) + Len(secondaryControllers)
          /\ \A i \in 1..Len(possible.ctls) :
                IF i <= Len(primaryControllers)
                THEN possible.ctls[i] \in Range(primaryControllers)
                ELSE possible.ctls[i] \in Range(secondaryControllers)
          /\ IsInjective(possible.ctls)

\* a shuffle that moved two entries of equal priority, and a list of
\* primaries and secondaries
C2_Witness ==
    /\ shufflePc = "sorted"
    /\ shuffled # controllers
    /\ \E i, j \in 1..Len(candidates) :
          /\ i < j
          /\ candidates[i].Priority = candidates[j].Priority
          /\ Pos(controllers, candidates[i]) > Pos(controllers, candidates[j])
    /\ \E i \in 1..Len(candidates) : candidates[i].Priority # candidates[1].Priority
    /\ possiblePc = "done" /\ possible.err = "" /\ possible.arg = NoPath
    /\ Len(primaryControllers) >= 1 /\ Len(secondaryControllers) >= 1

(***************************************************************************)
(* AddModel (internal/jimm/model.go): the model builder                    *)
(***************************************************************************)
Users == {"alice", "bob"}
\* the users whose ControllerAccess is "superuser"
Superusers == {"alice"}
Requests == {1, 2}
ModelName == "m"

NoRegion == 0
UnknownRegion == 3
RegionArgs == {NoRegion, UnknownRegion} \cup RegionIDs
CloudArgs == {"", "dummy", "unknown"}

\* the clouds a credential can be of: the cloud of the catalog and another
CredentialClouds == {"dummy", "other"}
\* a credential tag: the cloud and the owner of the credential
CredentialTags == CredentialClouds \X Users
NoTag == <<>>
\* what is kept of the arguments of an AddModel call: whether a credential
\* was given and, when none was and the call got as far as
\* CreateDatabaseModel, the caller (user); the caller and the owner of a call
\* that got as far as WithOwner; whether a call that got as far as
\* WithCloudRegion had found its cloud, and the region it named
NoArgs == [user |-> "", given |-> FALSE, caller |-> "", owner |-> "",
           cloud |-> FALSE, region |-> NoRegion]

\* the (region, controller) pairs a catalog may hold an entry for
CatalogKeys == {k \in RegionIDs \X ControllerIDs : k[2] >= k[1]}
NoEntry == -1

RECURSIVE SeqOfSet(_)
\* the numbers of S in increasing order
SeqOfSet(S) ==
    IF S = {} THEN <<>>
    ELSE LET m == CHOOSE x \in S : \A y \in S : x <= y
         IN <<m>> \o SeqOfSet(S \ {m})

\* the rows of a region, in primary key order, for a priority assignment
RegionEntries(prio, r) ==
    LET cs == SeqOfSet({c \in ControllerIDs :
                   <<r, c>> \in CatalogKeys /\ prio[<<r, c>>] # NoEntry})
    IN [i \in 1..Len(cs) |-> Entry(cs[i], r, prio[<<r, cs[i]>>])]

RECURSIVE ConcatRegions(_)
ConcatRegions(rs) ==
    IF rs = <<>> THEN <<>>
    ELSE regionControllers[Head(rs)] \o ConcatRegions(Tail(rs))

\* the slice selectCloudRegion collects: every region's controllers
AllRegionControllers == ConcatRegions(SeqOfSet(RegionIDs))

newModelBuilder ==
    [err |-> "", panic |-> FALSE, user |-> "", owner |-> "", cloud |-> FALSE,
     cloudRegion |-> NoRegion, cloudRegionID |-> 0, controller |-> 0,
     priority |-> NoEntry, credential |-> NoTag, model |-> 0]

\* the error of FromJujuModelCreateArgs for arguments with a name and an owner
FromJujuModelCreateArgs(cloudTag, credentialTag) ==
    IF cloudTag = "" THEN "cloud tag not specified"
    ELSE IF credentialTag # NoTag /\ credentialTag[1] # cloudTag
    THEN "cloud credential cloud mismatch"
    ELSE ""

WithUser(b, u) ==
    LET b1 == [b EXCEPT !.user = u]
    IN IF b.owner # "" /\ b.owner # u /\ u \notin Superusers
       THEN [b1 EXCEPT !.err = "unauthorized"]
       ELSE b1

WithOwner(b, owner, getUserErr) ==
    IF b.err # "" THEN b
    ELSE LET b1 == IF b.user # "" /\ owner # b.user /\ b.user \notin Superusers
                   THEN [b EXCEPT !.err = "unauthorized"]
                   ELSE b
             b2 == IF getUserErr THEN [b1 EXCEPT !.err = "get user failed"] ELSE b1
         IN [b2 EXCEPT !.owner = owner]

WithCloud(b, cloud) ==
    IF b.err # "" THEN b
    ELSE IF cloud # "dummy" THEN [b EXCEPT !.err = "cloud not found"]
    ELSE [b EXCEPT !.cloud = TRUE]

\* the first entry of a region's shuffled controllers becomes the selection
SelectFirst(b, cs, p) ==
    LET sel == shuffleRegionControllers(cs, p)[1]
    IN [b EXCEPT !.cloudRegionID = sel.CloudRegionID,
                 !.controller = sel.ControllerID,
                 !.priority = sel.Priority]

WithCloudRegion(b, region, p) ==
    IF b.err # "" THEN b
    ELSE IF ~b.cloud THEN [b EXCEPT !.err = "cloud not specified"]
    ELSE IF region \notin RegionIDs
         THEN [b EXCEPT !.err = "cloud region not found"]
    ELSE IF Len(regionControllers[region]) = 0
         \* the error is recorded and the empty slice is indexed all the same
         THEN [b EXCEPT !.err = "unsupported cloud region", !.panic = TRUE]
    ELSE [SelectFirst(b, regionControllers[region], p) EXCEPT !.cloudRegion = region]

WithCloudCredential(b, credentialTag) ==
    IF b.err # "" THEN b
    ELSE IF cloudCredentials[credentialTag] = "none"
         THEN [b EXCEPT !.err = "failed to fetch cloud credentials",
                        !.credential = credentialTag]
    ELSE [b EXCEPT !.credential = credentialTag]

selectCloudRegion(b, p) ==
    IF b.cloudRegionID # 0 THEN b
    ELSE IF ~b.cloud THEN [b EXCEPT !.err = "cloud not specified"]
    ELSE IF Len(AllRegionControllers) = 0 THEN [b EXCEPT !.err = "unsupported cloud"]
    ELSE SelectFirst(b, AllRegionControllers, p)

selectCloudCredentials(b) ==
    IF ~b.cloud THEN [b EXCEPT !.err = "could not select cloud credentials"]
    ELSE IF cloudCredentials[<<"dummy", b.user>>] = "valid"
         THEN [b EXCEPT !.credential = <<"dummy", b.user>>]
    ELSE [b EXCEPT !.err = "could not select cloud credentials"]

\* the unique index idx_model_name_owner_id of dbmodel.Model
ModelExists(rows, owner, name) ==
    \E m \in rows : m.OwnerID = owner /\ m.Name = name

\* Database.AddModel: the error it returns
DatabaseAddModel(rows, owner, name, dbErr) ==
    IF ModelExists(rows, owner, name) THEN "already exists"
    ELSE IF dbErr THEN "database error"
    ELSE ""

NewModelRow(b, id) ==
    [ID |-> id, Name |-> ModelName, OwnerID |-> b.owner,
     ControllerID |-> b.controller, CloudCredentialID |-> b.credential,
     CloudRegionID |-> b.cloudRegionID, UUID |-> ""]

\* CreateDatabaseModel that goes on after a unique-constraint error
CreateDatabaseModelErrIgnored(b, dberr) ==
    IF dberr = "database error"
    THEN [b EXCEPT !.err = "failed to store model information"]
    ELSE b

\* the error CreateDatabaseModel records for the result of Database.AddModel
CreateDatabaseModelErr(b, dberr) ==
    IF dberr = "already exists" THEN [b EXCEPT !.err = "model already exists"]
    ELSE IF dberr = "database error"
         THEN [b EXCEPT !.err = "failed to store model information"]
    ELSE b

\* the builder after CreateDatabaseModel and the rows of the catalog
CreateDatabaseModel(b, p, dbErr, rows, id) ==
    IF b.err # "" THEN [b |-> b, rows |-> rows]
    ELSE LET b1 == selectCloudRegion(b, p)
         IN IF b1.err # "" THEN [b |-> b1, rows |-> rows]
            ELSE LET b2 == IF b1.controller = 0
                           THEN [b1 EXCEPT !.err = "unable to determine a suitable controller"]
                           ELSE b1
                     b3 == IF b2.credential = NoTag THEN selectCloudCredentials(b2)
                           ELSE b2
                 IN IF b3.controller = 0 \/ b3.credential = NoTag
                    \* the row is built from the fields of a nil pointer
                    THEN [b |-> [b3 EXCEPT !.panic = TRUE], rows |-> rows]
                    ELSE LET dberr == DatabaseAddModel(rows, b3.owner, ModelName, dbErr)
                             b4 == CreateDatabaseModelErr(b3, dberr)
                         IN IF dberr # ""
                            THEN [b |-> b4, rows |-> rows]
                            ELSE [b |-> [b4 EXCEPT !.model = id],
                                  rows |-> rows \cup {NewModelRow(b4, id)}]

\* the slice the placement of a request shuffles
PlacementList(cloudArg, region) ==
    IF cloudArg # "dummy" THEN <<>>
    ELSE IF region = NoRegion THEN AllRegionControllers
    ELSE IF region \in RegionIDs THEN regionControllers[region]
    ELSE <<>>

\* what a request keeps of its builder while AddModel runs
Running(pc, b, calls) ==
    [pc |-> pc, owner |-> b.owner, err |-> b.err, scope |-> b.cloudRegion,
     cloudRegionID |-> b.cloudRegionID, controller |-> b.controller,
     priority |-> b.priority, credential |-> b.credential, model |-> b.model,
     calls |-> calls, res |-> "", log |-> "", args |-> NoArgs]

\* a request whose AddModel has returned (or panicked)
Returned(res, model, calls, log) ==
    [pc |-> "done", owner |-> "", err |-> "", scope |-> NoRegion,
     cloudRegionID |-> 0, controller |-> 0, priority |-> NoEntry,
     credential |-> NoTag, model |-> model, calls |-> calls, res |-> res,
     log |-> log, args |-> NoArgs]

\* the request record rec of a call made with args; the arguments are kept
\* of a request that runs alone
Called(rec, args) ==
    IF DOMAIN req = {1} THEN [rec EXCEPT !.args = args] ELSE rec

Idle == Running("idle", newModelBuilder, 0)

\* AddModel returns, or goes on to the controller, with builder b
AddModelReturn(r, b, rows, args) ==
    /\ dbModels' = rows
    /\ nextModelID' = IF b.model # 0 THEN nextModelID + 1 ELSE nextModelID
    /\ req' = [req EXCEPT ![r] = Called(
          IF b.panic THEN Returned("panic", 0, 0, "")
          ELSE IF b.err # "" THEN Returned(b.err, 0, 0, "")
          ELSE Running("created", b, 0), args)]

\* AddModel up to and including CreateDatabaseModel
AddModelStart(r) ==
    /\ req[r].pc = "idle"
    /\ \A q \in DOMAIN req : q < r => req[q].pc # "idle"
    /\ \E u \in Users, juju \in BOOLEAN, cloudArg \in CloudArgs,
          credArg \in {NoTag} \cup CredentialTags :
       LET args0 == [NoArgs EXCEPT !.given = credArg # NoTag]
           b0 == [newModelBuilder EXCEPT !.err =
                     IF juju THEN FromJujuModelCreateArgs(cloudArg, credArg)
                     ELSE ""]
       IN IF b0.err # "" THEN AddModelReturn(r, b0, dbModels, args0)
          ELSE \E owner \in Users, getUserErr \in BOOLEAN :
       LET args1 == [args0 EXCEPT !.caller = u, !.owner = owner]
           b1 == WithOwner(WithUser(newModelBuilder, u), owner, getUserErr)
       IN IF b1.err # "" THEN AddModelReturn(r, b1, dbModels, args1)
          ELSE
       LET b2 == IF cloudArg # "" THEN WithCloud(b1, cloudArg) ELSE b1
       IN IF b2.err # "" THEN AddModelReturn(r, b2, dbModels, args1)
          ELSE \E region \in RegionArgs :
               \E p \in Perms(Len(PlacementList(cloudArg, region))) :
       LET args3 == [args1 EXCEPT !.cloud = b2.cloud,
                                  !.region = IF b2.cloud THEN region ELSE NoRegion]
           b3 == IF region # NoRegion THEN WithCloudRegion(b2, region, p) ELSE b2
       IN IF b3.err # "" THEN AddModelReturn(r, b3, dbModels, args3)
          ELSE
       LET b4 == IF credArg # NoTag THEN WithCloudCredential(b3, credArg) ELSE b3
       IN IF b4.err # "" THEN AddModelReturn(r, b4, dbModels, args3)
          ELSE \E dbErr \in BOOLEAN :
       LET args == [args3 EXCEPT !.user = IF credArg = NoTag THEN u ELSE ""]
           out == CreateDatabaseModel(b4, p, dbErr, dbModels, nextModelID)
       IN AddModelReturn(r, out.b, out.rows, args)
    /\ UNCHANGED <<regionControllers, cloudCredentials, ctlModels>>
    /\ UNCHANGED notAddModelVars

\* Cleanup that deletes the row whatever the builder's error
CleanupAlways(err, model, rows, deleteOk) ==
    IF model = 0 THEN rows
    ELSE IF deleteOk THEN {m \in rows : m.ID # model}
    ELSE rows

\* the rows of the catalog after the deferred Cleanup; a failed delete is
\* logged and nothing more
Cleanup(err, model, rows, deleteOk) ==
    IF err = "" THEN rows
    ELSE IF model = 0 THEN rows
    ELSE IF deleteOk THEN {m \in rows : m.ID # model}
    ELSE rows

\* what Cleanup writes to the log
CleanupLog(err, model, deleteOk) ==
    IF err # "" /\ model # 0 /\ ~deleteOk THEN "failed to delete model" ELSE ""

\* the error CreateControllerModel ends with for what the controller did
CreateControllerModelErr(outcome, inUse) ==
    IF outcome = "dial" THEN "dial failed"
    ELSE IF outcome = "credential" THEN "failed to update cloud credential"
    ELSE IF inUse THEN "model name in use"
    ELSE IF outcome = "upgrade" THEN "upgrade in progress"
    ELSE IF outcome = "rejected" THEN "bad request"
    ELSE IF outcome = "grant" THEN "grant failed"
    ELSE ""

ControllerOutcomes == {"dial", "credential", "upgrade", "rejected", "grant", "ok"}

\* CreateControllerModel and, when it fails, AddModel's return through the
\* deferred Cleanup
CreateControllerModel(r) ==
    /\ req[r].pc = "created"
    /\ \E outcome \in ControllerOutcomes, deleteOk \in BOOLEAN :
          LET b == req[r]
              key == <<b.controller, b.owner, ModelName>>
              inUse == key \in ctlModels
              err == CreateControllerModelErr(outcome, inUse)
              called == outcome \notin {"dial", "credential"}
              made == called /\ ~inUse /\ outcome \in {"grant", "ok"}
          IN /\ ctlModels' = IF made THEN ctlModels \cup {key} ELSE ctlModels
             /\ dbModels' = Cleanup(err, b.model, dbModels, deleteOk)
             /\ req' = [req EXCEPT ![r] =
                   IF err = ""
                   THEN [b EXCEPT !.pc = "controller", !.calls = 1]
                   ELSE Called(Returned(err, b.model, IF called THEN 1 ELSE 0,
                                        CleanupLog(err, b.model, deleteOk)),
                               b.args)]
    /\ UNCHANGED <<regionControllers, cloudCredentials, nextModelID>>
    /\ UNCHANGED notAddModelVars

UpdateOutcomes == {"convert", "users", "store", "ok"}

UpdateDatabaseModelErr(outcome) ==
    IF outcome = "convert" THEN "failed to convert model info"
    ELSE IF outcome = "users" THEN "get user failed"
    ELSE IF outcome = "store" THEN "failed to store model information"
    ELSE ""

\* Database.UpdateModel: the row of the builder's model completed
DatabaseUpdateModel(rows, id) ==
    {IF m.ID = id THEN [m EXCEPT !.UUID = "set"] ELSE m : m \in rows}

\* UpdateDatabaseModel and AddModel's return through the deferred Cleanup
UpdateDatabaseModel(r) ==
    /\ req[r].pc = "controller"
    /\ \E outcome \in UpdateOutcomes, deleteOk \in BOOLEAN :
          LET b == req[r]
              err == UpdateDatabaseModelErr(outcome)
              rows == IF err = "" THEN DatabaseUpdateModel(dbModels, b.model)
                      ELSE dbModels
          IN /\ dbModels' = Cleanup(err, b.model, rows, deleteOk)
             /\ req' = [req EXCEPT ![r] =
                   Called(Returned(err, b.model, b.calls,
                                   CleanupLog(err, b.model, deleteOk)),
                          b.args)]
    /\ UNCHANGED <<regionControllers, cloudCredentials, nextModelID, ctlModels>>
    /\ UNCHANGED notAddModelVars

\* the catalogs of one cloud: every assignment of priorities to the entries
Catalogs ==
    {[r \in RegionIDs |-> RegionEntries(prio, r)] :
        prio \in [CatalogKeys -> {NoEntry} \cup Priorities]}

\* the credentials of the catalog: of the catalog's cloud none, one not
\* valid or a valid one for each user, and of the other cloud a valid one
CloudCredentials ==
    {cs \in [CredentialTags -> {"none", "invalid", "valid"}] :
        \A t \in CredentialTags : t[1] = "other" => cs[t] = "valid"}

InitAddModel ==
    /\ IdleShuffle
    /\ IdleCredential
    /\ IdleAccess
    /\ IdleLookup
    /\ IdleGroup
    /\ IdleApply
    /\ IdlePool
    /\ IdleCache
    /\ IdleWatcher
    /\ IdleLogin
    /\ IdleCatalog
    /\ IdleFanout
    /\ IdleGetCred
    /\ IdleModelInfo
    /\ IdleCtl
    /\ regionControllers \in Catalogs
    /\ cloudCredentials \in CloudCredentials
    /\ dbModels = {}
    /\ nextModelID = 1
    /\ ctlModels = {}
    /\ req = [r \in {1} |-> Idle]

NextAddModel ==
    \/ \E r \in DOMAIN req : AddModelStart(r)
    \/ \E r \in DOMAIN req : CreateControllerModel(r)
    \/ \E r \in DOMAIN req : UpdateDatabaseModel(r)

\* one AddModel request, over every catalog
SpecAddModel == InitAddModel /\ [][NextAddModel]_vars

\* two concurrent AddModel requests, over the catalogs of one region
InitAddModelConcurrent ==
    /\ IdleShuffle
    /\ IdleCredential
    /\ IdleAccess
    /\ IdleLookup
    /\ IdleGroup
    /\ IdleApply
    /\ IdlePool
    /\ IdleCache
    /\ IdleWatcher
    /\ IdleLogin
    /\ IdleCatalog
    /\ IdleFanout
    /\ IdleGetCred
    /\ IdleModelInfo
    /\ IdleCtl
    /\ regionControllers \in {c \in Catalogs : c[2] = <<>>}
    /\ cloudCredentials \in {[t \in CredentialTags |->
                                 IF t[1] = "dummy" THEN "valid" ELSE "none"]}
    /\ dbModels = {}
    /\ nextModelID = 1
    /\ ctlModels = {}
    /\ req = [r \in Requests |-> Idle]

SpecAddModelConcurrent == InitAddModelConcurrent /\ [][NextAddModel]_vars

\* the slice a request's placement chose from
ScopeList(scope) ==
    IF scope = NoRegion THEN AllRegionControllers ELSE regionControllers[scope]

Selected(r) == req[r].pc \in {"created", "controller"}

(***************************************************************************)
(* C1 as the specification states it: every controller AddModel selects    *)
(* has an entry of priority strictly greater than zero for the chosen      *)
(* region.                                                                 *)
(***************************************************************************)
C1_PriorityPositive ==
    \A r \in DOMAIN req : Selected(r) => req[r].priority > 0

(***************************************************************************)
(* C1: every controller AddModel selects has an entry for the chosen cloud *)
(* region in the catalog (a controller without an entry is never chosen),  *)
(* the chosen region is the requested one when a region was requested, and *)
(* the entry's priority is the highest of the entries placement chose      *)
(* from; that priority may be zero.                                        *)
(***************************************************************************)
C1_SelectsHighestPriority ==
    \A r \in DOMAIN req : Selected(r) =>
        /\ req[r].cloudRegionID \in RegionIDs
        /\ Entry(req[r].controller, req[r].cloudRegionID, req[r].priority)
              \in Range(regionControllers[req[r].cloudRegionID])
        /\ req[r].scope # NoRegion => req[r].cloudRegionID = req[r].scope
        /\ \A i \in 1..Len(ScopeList(req[r].scope)) :
              ScopeList(req[r].scope)[i].Priority <= req[r].priority

\* a selection made over every region of a cloud whose entries have
\* priorities 0 and 1, the shuffle having put a lower entry first
C1_Witness ==
    \E r \in DOMAIN req :
        /\ Selected(r)
        /\ req[r].scope = NoRegion
        /\ req[r].priority = CloudRegionControllerPrioritySupported
        /\ Len(AllRegionControllers) = 3
        /\ AllRegionControllers[1].Priority = 0
        /\ req[r].controller # AllRegionControllers[1].ControllerID

RowOf(id) == {m \in dbModels : m.ID = id}

C3_State ==
    /\ \A m1, m2 \in dbModels :
          (m1.OwnerID = m2.OwnerID /\ m1.Name = m2.Name) => m1 = m2
    /\ \A r1, r2 \in DOMAIN req :
          (r1 # r2 /\ req[r1].pc = "done" /\ req[r1].res = ""
                   /\ req[r2].pc = "done" /\ req[r2].res = "")
          => \E m1 \in RowOf(req[r1].model), m2 \in RowOf(req[r2].model) :
                m1.OwnerID # m2.OwnerID
    /\ \A r \in DOMAIN req :
          req[r].res = "model already exists"
              => req[r].pc = "done" /\ req[r].calls = 0 /\ req[r].model = 0

C3_Step ==
    \A r \in DOMAIN req :
        (req[r].pc = "idle" /\ req'[r].res = "model already exists")
            => dbModels' = dbModels /\ ctlModels' = ctlModels

(***************************************************************************)
(* C3: of two concurrent AddModel requests for the same (owner, name) at   *)
(* most one succeeds; a request whose insert of the skeletal row finds the *)
(* (owner, name) taken fails with "already exists", has sent no            *)
(* create-model request, and its failure leaves the rows of the catalog    *)
(* and the models of the controllers as they were.                         *)
(***************************************************************************)
C3_DuplicateFailsLocally == [][C3_State' /\ C3_Step]_vars

\* the duplicate failed while the first request was still in flight, and
\* the first request's row is in the catalog
C3_Witness ==
    /\ req[1].pc \in {"created", "controller"}
    /\ req[2].pc = "done" /\ req[2].res = "model already exists"
    /\ RowOf(req[1].model) # {}

ReturnedAfterInsert(r) ==
    req[r].pc = "done" /\ req[r].model # 0 /\ req[r].res # ""

(***************************************************************************)
(* C4 as the specification states it: whenever AddModel returns an error   *)
(* after its skeletal row was inserted, the row is no longer in the        *)
(* catalog.                                                                *)
(***************************************************************************)
C4_RowAlwaysDeleted ==
    \A r \in DOMAIN req : ReturnedAfterInsert(r) => RowOf(req[r].model) = {}

(***************************************************************************)
(* C4: whenever AddModel returns an error after its skeletal row was       *)
(* inserted, the row is no longer in the catalog unless the delete of the  *)
(* cleanup failed, in which case the failure is logged and the row stays;  *)
(* when AddModel succeeds the row is kept, and completed.                  *)
(***************************************************************************)
C4_CleanupDeletesRow ==
    \A r \in DOMAIN req :
        /\ ReturnedAfterInsert(r) =>
              (RowOf(req[r].model) = {} <=> req[r].log = "")
        /\ (req[r].pc = "done" /\ req[r].res = "") =>
              \E m \in RowOf(req[r].model) : m.UUID = "set"

\* a failure on the controller after the insert, the row deleted
C4_Witness ==
    \E r \in DOMAIN req :
        /\ ReturnedAfterInsert(r)
        /\ req[r].res = "grant failed"
        /\ req[r].log = ""
        /\ RowOf(req[r].model) = {}
        /\ nextModelID = 2

\* the cloud of the regions of the catalog
RegionCloud == "dummy"

(***************************************************************************)
(* C19 as the specification states it: a model row created by an AddModel  *)
(* that was given a credential references a credential owned by the        *)
(* model's owner and of the cloud of the model's region.                   *)
(***************************************************************************)
C19_GivenCredentialOfOwnerAndCloud ==
    \A r \in DOMAIN req :
        req[r].args.given =>
            \A m \in RowOf(req[r].model) :
                /\ m.CloudCredentialID[2] = m.OwnerID
                /\ m.CloudCredentialID[1] = RegionCloud

\* the half of C19 on the owner alone
GivenCredentialOfOwner ==
    \A r \in DOMAIN req :
        req[r].args.given =>
            \A m \in RowOf(req[r].model) : m.CloudCredentialID[2] = m.OwnerID

\* the half of C19 on the cloud alone
GivenCredentialOfCloud ==
    \A r \in DOMAIN req :
        req[r].args.given =>
            \A m \in RowOf(req[r].model) : m.CloudCredentialID[1] = RegionCloud

\* the errors CreateDatabaseModel returns before it selects a credential
PlacementErrors == {"cloud not specified", "unsupported cloud"}

(***************************************************************************)
(* C20 as the specification states it: an AddModel given no credential     *)
(* uses a valid credential of the caller for the cloud; when the caller    *)
(* has none, AddModel returns an error, that it could not select cloud     *)
(* credentials unless no controller could be placed, without a model row   *)
(* and without a call to a controller.                                     *)
(***************************************************************************)
C20_NoCredentialSelectsOrFails ==
    \A r \in DOMAIN req :
        req[r].args.user # "" =>
            LET own == <<RegionCloud, req[r].args.user>>
            IN IF cloudCredentials[own] = "valid"
               THEN \A m \in RowOf(req[r].model) : m.CloudCredentialID = own
               ELSE /\ req[r].pc = "done"
                    /\ req[r].res \in PlacementErrors
                                        \cup {"could not select cloud credentials"}
                    /\ req[r].model = 0
                    /\ req[r].calls = 0

\* the half of C20 on the credential that is used
SelectedCredentialOfCaller ==
    \A r \in DOMAIN req :
        req[r].args.user # "" =>
            \A m \in RowOf(req[r].model) :
                /\ m.CloudCredentialID = <<RegionCloud, req[r].args.user>>
                /\ cloudCredentials[m.CloudCredentialID] = "valid"

\* AddModel without a credential, for a caller without a valid one, ends
\* without a model row and without a call to a controller
NoCredentialNoRow ==
    \A r \in DOMAIN req :
        (/\ req[r].args.user # ""
         /\ cloudCredentials[<<RegionCloud, req[r].args.user>>] # "valid")
            => /\ req[r].pc = "done"
               /\ req[r].res \in PlacementErrors \cup {"panic"}
               /\ req[r].model = 0
               /\ req[r].calls = 0
               /\ dbModels = {}

\* a call of AddModel that has returned, normally or not
Done(r) == req[r].pc = "done"

\* the call made no change: no row of its own and no call to a controller
NoEffect(r) == req[r].model = 0 /\ req[r].calls = 0 /\ dbModels = {}

(***************************************************************************)
(* C21 as the specification states it: AddModel naming a region that       *)
(* exists but has no controller entry, or a cloud none of whose regions    *)
(* has a controller entry, returns the error for the unsupported region or *)
(* cloud (or, before it, that the given credential could not be fetched)   *)
(* as an ordinary error: nothing is selected, no row is inserted and the   *)
(* call does not panic.                                                    *)
(***************************************************************************)
C21_UnsupportedIsOrdinaryError ==
    \A r \in DOMAIN req :
        (Done(r) /\ req[r].args.cloud) =>
            /\ (/\ req[r].args.region \in RegionIDs
                /\ regionControllers[req[r].args.region] = <<>>)
                  => /\ req[r].res = "unsupported cloud region"
                     /\ NoEffect(r)
            /\ (req[r].args.region = NoRegion /\ AllRegionControllers = <<>>)
                  => /\ req[r].res \in {"unsupported cloud",
                                        "failed to fetch cloud credentials"}
                     /\ NoEffect(r)

\* the half of C21 on the cloud alone
UnsupportedCloudIsOrdinaryError ==
    \A r \in DOMAIN req :
        (/\ Done(r) /\ req[r].args.cloud
         /\ req[r].args.region = NoRegion /\ AllRegionControllers = <<>>)
            => /\ req[r].res \in {"unsupported cloud",
                                  "failed to fetch cloud credentials"}
               /\ NoEffect(r)

\* what the region half of C21 comes to in the code
UnsupportedRegionPanics ==
    \A r \in DOMAIN req :
        (/\ Done(r) /\ req[r].args.cloud
         /\ req[r].args.region \in RegionIDs
         /\ regionControllers[req[r].args.region] = <<>>)
            => req[r].res = "panic" /\ NoEffect(r)

\* the errors of a controller that did not accept the request: it was not
\* reached, or it did not take the credential
NotAccepted == {"dial failed", "failed to update cloud credential"}

\* the controllers of the candidates the placement of a request chose from
CandidateControllers(scope) ==
    {ScopeList(scope)[i].ControllerID : i \in 1..Len(ScopeList(scope))}

\* AddModel of request r returns in this step, from CreateControllerModel
ReturnsFromController(r) == req[r].pc = "created" /\ req'[r].pc = "done"

(***************************************************************************)
(* C22 as the specification states it: when AddModel returns because a     *)
(* controller did not accept the create request, every candidate has been  *)
(* tried: the controller that was tried is the only candidate.             *)
(***************************************************************************)
C22_NextCandidateTried ==
    [][\A r \in DOMAIN req :
          (ReturnsFromController(r) /\ req'[r].res \in NotAccepted)
              => CandidateControllers(req[r].scope) = {req[r].controller}]_vars

\* what C22 comes to in the code: AddModel returns the error of the one
\* controller it selected, whatever the error, and a model that is made is
\* made on that controller
OnlySelectedTried ==
    [][\A r \in DOMAIN req :
          /\ (req[r].pc = "created" /\ req'[r].pc # "created")
                => /\ ctlModels' \ ctlModels
                         \subseteq {<<req[r].controller, req[r].owner, ModelName>>}
                   /\ req'[r].calls <= 1
                   /\ req'[r].res # "" => req'[r].pc = "done"
          /\ req'[r].pc = "controller" => req'[r].controller = req[r].controller]_vars

\* the errors of AddModel for a cloud that was not given
NoCloudErrors == {"cloud tag not specified", "cloud not specified"}

(***************************************************************************)
(* C23 as the specification states it: AddModel fails for lack of a cloud   *)
(* only when no credential is given either; with a credential the cloud is *)
(* the credential's.                                                       *)
(***************************************************************************)
C23_CloudFromCredential ==
    \A r \in DOMAIN req :
        (Done(r) /\ req[r].args.given) => req[r].res \notin NoCloudErrors

\* what C23 comes to in the code: a call fails for lack of a cloud whether
\* or not a credential is given, and a model row is only made by a call
\* that found its cloud by the cloud it was given
CloudOnlyFromArgument ==
    \A r \in DOMAIN req :
        /\ req[r].res \in NoCloudErrors => Done(r) /\ NoEffect(r)
        /\ RowOf(req[r].model) # {} => req[r].args.cloud

\* the call of request r was made by a user who is no superuser and who
\* named another user as the owner
ForeignOwner(r) ==
    /\ req[r].args.caller \in Users \ Superusers
    /\ req[r].args.owner # req[r].args.caller

(***************************************************************************)
(* C24 as the specification states it: AddModel called by a user who is no *)
(* superuser and who names another owner returns Unauthorized without a    *)
(* model row and without a call to a controller; a model of another owner  *)
(* than the caller is only made for a superuser.                           *)
(***************************************************************************)
C24_ForeignOwnerUnauthorized ==
    \A r \in DOMAIN req :
        /\ ForeignOwner(r) =>
              Done(r) /\ req[r].res = "unauthorized" /\ NoEffect(r)
        /\ \A m \in RowOf(req[r].model) :
              m.OwnerID # req[r].args.caller => req[r].args.caller \in Superusers

\* what C24 comes to in the code: the call is refused without effect, with
\* Unauthorized or with the error of the lookup of the owner
ForeignOwnerRefused ==
    \A r \in DOMAIN req :
        /\ ForeignOwner(r) =>
              /\ Done(r) /\ NoEffect(r)
              /\ req[r].res \in {"unauthorized", "get user failed"}
        /\ \A m \in RowOf(req[r].model) :
              /\ m.OwnerID = req[r].args.owner
              /\ m.OwnerID # req[r].args.caller => req[r].args.caller \in Superusers

(***************************************************************************)
(* UpdateCredential and RevokeCredential (internal/jem)                    *)
(***************************************************************************)
MaxOps == 2

CredentialUpdate == 1
CredentialCheck == 2
AllFlags == CredentialUpdate + CredentialCheck

HasFlag(flags, bit) == (flags \div bit) % 2 = 1

\* flags of zero stand for every flag
EffectiveFlags(flags) == IF flags = 0 THEN AllFlags ELSE flags

CheckOutcomes == {"ok", "unsupported", "connect", "invalid"}

\* the error of checkCredentialOnController for what the controller did
checkCredentialOnController(outcome) ==
    IF outcome = "connect" THEN "cannot connect to controller"
    ELSE IF outcome = "invalid" THEN "credential not valid"
    ELSE ""

ControllerErr(c, err) == "controller " \o ToString(c) \o ": " \o err

\* a merge that drops the errors of the results
mergeNoError(firstError, c, err) == firstError

\* firstError of mergeUpdateCredentialResults after a result of controller c
mergeFirstError(firstError, c, err) ==
    IF err # "" /\ firstError = "" THEN ControllerErr(c, err) ELSE firstError

\* what the caller of checkCredentialOnController is given: a controller
\* without support for the check returns nothing, as one whose check passes
CheckResults(checks) ==
    [c \in DOMAIN checks |->
        IF checks[c] = "unsupported" THEN "ok" ELSE checks[c]]

\* the controllers whose check reports an error
CheckFailing(ctls, checks) ==
    {c \in ctls : checkCredentialOnController(checks[c]) # ""}

\* a wait that returns no error when it takes the done context
NotTimedOut(what) == ""

\* the error of a wait that took the done context: the context's error noted
\* with what was being waited for
TimedOut(what) == "timed out " \o what \o " credentials"

TimedOutErrors ==
    {"timed out checking credentials", "timed out revoking credentials"}

\* the errors of the merge of a check when every result is received: the
\* results arrive in any order
CheckMerged(ctls, checks) ==
    IF CheckFailing(ctls, checks) = {} THEN {""}
    ELSE {mergeFirstError("", c, checkCredentialOnController(checks[c])) :
             c \in CheckFailing(ctls, checks)}

\* the errors checkCredential may return; when the context is done the select
\* takes the done context or a result that is ready, whichever it picks
checkCredential(ctls, checks, ctxDone) ==
    IF ctls = {} THEN {""}
    ELSE IF ctxDone
    THEN {TimedOut("checking")} \cup CheckMerged(ctls, checks)
    ELSE CheckMerged(ctls, checks)

\* a check whose error does not stop the update
CheckReturnsIgnoringError(err, flags) == ~HasFlag(flags, CredentialUpdate)

\* whether UpdateCredential returns after the check
CheckReturns(err, flags) == err # "" \/ ~HasFlag(flags, CredentialUpdate)

CredIdle ==
    /\ credOp.pc \in {"idle", "done"}
    /\ credOp.pending = {}
    /\ credCount < MaxOps

\* a goroutine sends its result on the buffered channel of the call; once the
\* call has returned nothing receives from the channel and the result is lost
Send(op, r) == IF op.pc = "done" THEN op.ch ELSE Append(op.ch, r)

\* the operation returns to its caller
CredReturn(op, res) ==
    /\ credOp' = [op EXCEPT !.pc = "done", !.res = res]
    /\ credCount' = credCount + 1

WriteOutcomes == {"db", "vault", "mark", "ok"}

\* updateCredential up to the start of the pushes, for a credential whose
\* Controllers field is credControllers and the controllers ctls of the catalog
updateCredential(op, credControllers, ctls, write) ==
    IF write = "db"
    THEN /\ CredReturn(op, "cannot update local database")
         /\ UNCHANGED <<credential, vault, updateCredentials>>
    ELSE /\ credential' = [credential EXCEPT !.found = TRUE, !.version = op.n,
                                             !.Revoked = FALSE,
                                             !.AttributesInVault = vaultClient]
         /\ vault' = IF vaultClient /\ write # "vault" THEN op.n ELSE vault
         /\ updateCredentials' =
               IF write = "ok" THEN updateCredentials \cup credControllers
               ELSE updateCredentials
         /\ IF write = "vault"
            THEN CredReturn([op EXCEPT !.written = TRUE], "cannot write secret")
            ELSE IF write = "mark"
            THEN CredReturn([op EXCEPT !.written = TRUE],
                            "cannot mark controllers to be updated")
            ELSE IF ctls = {}
            THEN CredReturn([op EXCEPT !.written = TRUE, !.fanout = TRUE], "")
            ELSE /\ credOp' = [op EXCEPT !.written = TRUE, !.fanout = TRUE,
                                         !.pc = "pushing", !.pending = ctls,
                                         !.waiting = Cardinality(ctls),
                                         !.failed = {}]
                 /\ credCount' = credCount + 1

\* the check of UpdateCredential done, the update goes on
UpdateCredentialUpdate(op, ctls) ==
    \E write \in WriteOutcomes :
    \E credControllers \in (IF write = "ok" THEN SUBSET ControllerIDs ELSE {{}}) :
        /\ write = "vault" => vaultClient
        /\ updateCredential(op, credControllers, ctls, write)

UpdateCredential ==
    /\ CredIdle
    /\ \E flags \in {EffectiveFlags(f) : f \in 0..AllFlags},
          early \in {"revoked", "get", ""} :
       LET ctls == IF credential.found THEN credential.Controllers ELSE {}
           op == [NoCredOp EXCEPT !.kind = "UpdateCredential",
                                  !.n = credCount + 1,
                                  !.flags = flags,
                                  !.controllers = ctls]
       IN IF early # ""
          THEN /\ CredReturn(op, IF early = "revoked"
                     THEN "cannot use UpdateCredential to revoke a credential"
                     ELSE "cannot get credential")
               /\ ctlCalls' = {}
               /\ UNCHANGED <<credential, vault, updateCredentials>>
          ELSE IF ~HasFlag(op.flags, CredentialCheck)
          THEN /\ UpdateCredentialUpdate(op, ctls)
               /\ ctlCalls' = {}
          ELSE \E checks \in {CheckResults(a) : a \in [ctls -> CheckOutcomes]} :
               \E ctxDone \in (IF ctls = {} THEN {FALSE} ELSE BOOLEAN) :
               \E err \in checkCredential(ctls, checks, ctxDone) :
               LET op1 == [op EXCEPT
                              !.failed = CheckFailing(ctls, checks),
                              !.ctx = IF ctxDone /\ ctls # {} THEN "early" ELSE ""]
               IN /\ ctlCalls' = {}
                  /\ IF CheckReturns(err, op.flags)
                     THEN /\ CredReturn(op1, err)
                          /\ UNCHANGED <<credential, vault, updateCredentials>>
                     ELSE UpdateCredentialUpdate(op1, ctls)
    /\ UNCHANGED <<vaultClient, ctlCredential, modelsWithCredential>>
    /\ UNCHANGED notCredentialVars

PushOutcomes == {"connect", "rejected", "clear", "ok"}

\* the error a push goroutine sends for what happened
PushErr(outcome) ==
    IF outcome = "connect" THEN "cannot connect to controller"
    ELSE IF outcome = "rejected" THEN "cannot update credentials"
    ELSE IF outcome = "clear"
    THEN "cannot update controller after successfully updating credential"
    ELSE ""

\* a goroutine of updateCredential: OpenAPI and updateControllerCredential
PushCredential(c) ==
    /\ credOp.kind = "UpdateCredential"
    /\ c \in credOp.pending
    /\ \E outcome \in PushOutcomes :
          /\ ctlCalls' = IF outcome \in {"rejected", "clear", "ok"}
                         THEN ctlCalls \cup {<<c, "update">>}
                         ELSE ctlCalls
          /\ ctlCredential' = IF outcome \in {"clear", "ok"}
                              THEN [ctlCredential EXCEPT ![c] = credOp.n]
                              ELSE ctlCredential
          /\ updateCredentials' = IF outcome = "ok"
                                  THEN updateCredentials \ {c}
                                  ELSE updateCredentials
          /\ credOp' = [credOp EXCEPT
                !.pending = @ \ {c},
                !.ch = Send(credOp, [ctlPath |-> c, err |-> PushErr(outcome)])]
    /\ UNCHANGED <<credential, vaultClient, vault, modelsWithCredential, credCount>>
    /\ UNCHANGED notCredentialVars

\* mergeUpdateCredentialResults receives a result; the last one ends the call
MergeUpdateCredentialResults ==
    /\ credOp.pc = "pushing"
    /\ credOp.ch # <<>>
    /\ LET r == Head(credOp.ch)
           first == mergeFirstError(credOp.firstError, r.ctlPath, r.err)
       IN credOp' = [credOp EXCEPT
             !.ch = Tail(@),
             !.waiting = @ - 1,
             !.failed = IF r.err # "" THEN @ \cup {r.ctlPath} ELSE @,
             !.firstError = first,
             !.pc = IF credOp.waiting = 1 THEN "done" ELSE @,
             !.res = IF credOp.waiting = 1 THEN first ELSE @]
    /\ UNCHANGED <<credential, vaultClient, vault, updateCredentials,
                   ctlCredential, ctlCalls, modelsWithCredential, credCount>>
    /\ UNCHANGED notCredentialVars

\* a revoke that does not look at the models
RevokeCheckSkipped(models) == ""

\* the check of RevokeCredential
RevokeCheck(models) ==
    IF models > 0
    THEN "cannot revoke because credential is in use on at least one model"
    ELSE ""

RevokeCredential ==
    /\ CredIdle
    /\ \E flags \in {EffectiveFlags(f) : f \in 0..AllFlags} :
       \E getErr \in (IF credential.found THEN BOOLEAN ELSE {FALSE}) :
       \E modelsErr \in (IF ~getErr /\ HasFlag(flags, CredentialCheck)
                          THEN BOOLEAN ELSE {FALSE}) :
       \E dbErr \in (IF ~getErr /\ ~modelsErr /\ HasFlag(flags, CredentialUpdate)
                      THEN BOOLEAN ELSE {FALSE}) :
       LET ctls == credential.Controllers
           op == [NoCredOp EXCEPT !.kind = "RevokeCredential",
                                  !.n = credCount + 1,
                                  !.flags = flags,
                                  !.controllers = ctls]
           check == HasFlag(op.flags, CredentialCheck)
           err == IF ~credential.found THEN "credential not found"
                  ELSE IF getErr THEN "cannot get credential"
                  ELSE IF check /\ modelsErr THEN "cannot get models"
                  ELSE IF check THEN RevokeCheck(modelsWithCredential)
                  ELSE ""
       IN IF err # "" \/ ~HasFlag(op.flags, CredentialUpdate)
          THEN CredReturn(op, err) /\ UNCHANGED credential
          ELSE IF dbErr
          THEN CredReturn(op, "cannot update local database") /\ UNCHANGED credential
          ELSE /\ credential' = [credential EXCEPT !.Revoked = TRUE, !.version = op.n]
               /\ IF ctls = {}
                  THEN CredReturn([op EXCEPT !.written = TRUE, !.fanout = TRUE], "")
                  ELSE /\ credOp' = [op EXCEPT !.written = TRUE, !.fanout = TRUE,
                                               !.pc = "revoking", !.pending = ctls,
                                               !.waiting = Cardinality(ctls)]
                       /\ credCount' = credCount + 1
    /\ ctlCalls' = {}
    /\ UNCHANGED <<vaultClient, vault, updateCredentials, ctlCredential,
                   modelsWithCredential>>
    /\ UNCHANGED notCredentialVars

RevokeOutcomes == {"connect", "rejected", "clear", "ok"}

\* a goroutine of RevokeCredential: OpenAPI and revokeControllerCredential
RevokeControllerCredential(c) ==
    /\ credOp.kind = "RevokeCredential"
    /\ c \in credOp.pending
    /\ \E outcome \in RevokeOutcomes :
          /\ ctlCalls' = IF outcome # "connect"
                         THEN ctlCalls \cup {<<c, "revoke">>}
                         ELSE ctlCalls
          /\ ctlCredential' = IF outcome \in {"clear", "ok"}
                              THEN [ctlCredential EXCEPT ![c] = NoCredential]
                              ELSE ctlCredential
          /\ updateCredentials' = IF outcome = "ok"
                                  THEN updateCredentials \ {c}
                                  ELSE updateCredentials
          /\ credOp' = [credOp EXCEPT
                !.pending = @ \ {c},
                !.ch = Send(credOp, [ctlPath |-> c, err |-> ""])]
    /\ UNCHANGED <<credential, vaultClient, vault, modelsWithCredential, credCount>>
    /\ UNCHANGED notCredentialVars

\* RevokeCredential receives from a goroutine; the last one ends the call
RevokeReceive ==
    /\ credOp.pc = "revoking"
    /\ credOp.ch # <<>>
    /\ credOp' = [credOp EXCEPT
          !.ch = Tail(@),
          !.waiting = @ - 1,
          !.pc = IF credOp.waiting = 1 THEN "done" ELSE @]
    /\ UNCHANGED <<credential, vaultClient, vault, updateCredentials,
                   ctlCredential, ctlCalls, modelsWithCredential, credCount>>
    /\ UNCHANGED notCredentialVars

\* the context of the call ends while results are awaited and a goroutine
\* has yet to send its result
ContextEnds ==
    /\ credOp.pc \in {"pushing", "revoking"}
    /\ credOp.ctx = ""
    /\ credOp.pending # {}
    /\ credOp' = [credOp EXCEPT !.ctx = "early"]
    /\ UNCHANGED <<credential, vaultClient, vault, updateCredentials,
                   ctlCredential, ctlCalls, modelsWithCredential, credCount>>
    /\ UNCHANGED notCredentialVars

\* the select of the wait takes the done context: of a context that ended
\* early, or of one that ends now, every result sent
CtxDone ==
    /\ credOp.pc \in {"pushing", "revoking"}
    /\ credOp.ctx = "early" \/ credOp.pending = {}
    /\ credOp' = [credOp EXCEPT
          !.pc = "done",
          !.ch = <<>>,
          !.res = TimedOut(IF credOp.pc = "pushing" THEN "checking"
                           ELSE "revoking")]
    /\ UNCHANGED <<credential, vaultClient, vault, updateCredentials,
                   ctlCredential, ctlCalls, modelsWithCredential, credCount>>
    /\ UNCHANGED notCredentialVars

InitCredential ==
    /\ IdleShuffle
    /\ IdleAddModel
    /\ IdleAccess
    /\ IdleLookup
    /\ IdleGroup
    /\ IdleApply
    /\ IdlePool
    /\ IdleCache
    /\ IdleWatcher
    /\ IdleLogin
    /\ IdleCatalog
    /\ IdleFanout
    /\ IdleGetCred
    /\ IdleModelInfo
    /\ IdleCtl
    /\ vaultClient \in BOOLEAN
    /\ \E found \in BOOLEAN, ctls \in SUBSET ControllerIDs :
          /\ ~found => ctls = {}
          /\ credential = [found |-> found, Controllers |-> ctls,
                           version |-> IF found THEN 0 ELSE NoCredential,
                           Revoked |-> FALSE,
                           AttributesInVault |-> found /\ vaultClient]
          /\ vault = IF found /\ vaultClient THEN 0 ELSE NoCredential
          /\ ctlCredential = [c \in ControllerIDs |->
                                 IF c \in ctls THEN 0 ELSE NoCredential]
          /\ modelsWithCredential \in (IF ctls = {} THEN {0} ELSE {0, 1})
    /\ updateCredentials = {}
    /\ ctlCalls = {}
    /\ credOp = NoCredOp
    /\ credCount = 0

NextCredential ==
    \/ UpdateCredential
    \/ \E c \in ControllerIDs : PushCredential(c)
    \/ MergeUpdateCredentialResults
    \/ RevokeCredential
    \/ \E c \in ControllerIDs : RevokeControllerCredential(c)
    \/ RevokeReceive
    \/ ContextEnds
    \/ CtxDone

SpecCredential == InitCredential /\ [][NextCredential]_vars

\* an operation of the given kind starts in this step
Starts(kind) == credCount' = credCount + 1 /\ credOp'.kind = kind

NoCredentialWrite ==
    /\ credential' = credential
    /\ vault' = vault
    /\ updateCredentials' = updateCredentials
    /\ ctlCredential' = ctlCredential

PushesMerged ==
    /\ credOp.kind = "UpdateCredential"
    /\ credOp.pc = "done"
    /\ credOp.fanout
    /\ credOp.waiting = 0

(***************************************************************************)
(* C6 as the specification states it: a failure to push the credential to  *)
(* a holding controller does not make UpdateCredential return an error.    *)
(***************************************************************************)
C6_PushFailureIgnored ==
    (PushesMerged /\ credOp.failed # {}) => credOp.res = ""

(***************************************************************************)
(* C6: when every push has reported, UpdateCredential returns no error if  *)
(* no push failed, and otherwise the error of a controller whose push      *)
(* failed; in both cases the catalog write stands.                         *)
(***************************************************************************)
C6_PushFailureReturned ==
    PushesMerged =>
        /\ credOp.failed = {} <=> credOp.res = ""
        /\ credOp.failed # {} =>
              \E c \in credOp.failed, o \in PushOutcomes \ {"ok"} :
                  credOp.res = ControllerErr(c, PushErr(o))
        /\ credential.found /\ credential.version = credOp.n

\* one of two pushes failed and the call returned that controller's error
C6_Witness ==
    /\ PushesMerged
    /\ Cardinality(credOp.controllers) = 2
    /\ Cardinality(credOp.failed) = 1
    /\ credOp.res # ""
    /\ \E c \in credOp.controllers : ctlCredential[c] = credOp.n

(***************************************************************************)
(* C7 as the specification states it: once UpdateCredential has written    *)
(* the credential and started the pushes, every controller the catalog     *)
(* records as holding the credential is marked needs-update or has         *)
(* accepted the new credential.                                            *)
(***************************************************************************)
C7_HoldersMarkedOrUpdated ==
    (credOp.kind = "UpdateCredential" /\ credOp.fanout) =>
        \A c \in credOp.controllers :
            c \in updateCredentials \/ ctlCredential[c] = credOp.n

(***************************************************************************)
(* C8: a RevokeCredential with the Check flag on a credential of the       *)
(* catalog that a model uses returns an error in that same step, the one   *)
(* saying the credential is in use unless the catalog could not be read,   *)
(* and changes neither the catalog nor the controllers: no revoke call is  *)
(* made and none is left to run.                                           *)
(***************************************************************************)
C8_RevokeInUseRefused ==
    [][(/\ Starts("RevokeCredential")
        /\ HasFlag(credOp'.flags, CredentialCheck)
        /\ credential.found
        /\ modelsWithCredential > 0)
       => /\ credOp'.pc = "done"
          /\ credOp'.res \in {RevokeCheck(modelsWithCredential),
                              "cannot get credential", "cannot get models"}
          /\ ~credOp'.written
          /\ credOp'.pending = {}
          /\ NoCredentialWrite
          /\ ctlCalls' = {}]_vars

\* the revocation of a credential in use was refused
C8_Witness ==
    /\ credOp.kind = "RevokeCredential"
    /\ credOp.pc = "done"
    /\ credOp.flags = AllFlags
    /\ modelsWithCredential > 0
    /\ credOp.res = "cannot revoke because credential is in use on at least one model"
    /\ ~credential.Revoked

\* the running call returns in this step
Returns ==
    /\ credOp'.pc = "done"
    /\ credOp.pc # "done" \/ credOp'.n # credOp.n

\* a call that has returned although its context was done before every
\* controller had sent its result
ReturnedAfterContextDone == credOp.pc = "done" /\ credOp.ctx = "early"

(***************************************************************************)
(* C16 as the specification states it: a check, update or revocation whose *)
(* context was done before every controller's result had arrived returns   *)
(* a timed out error.                                                      *)
(***************************************************************************)
C16_ContextDoneTimesOut ==
    ReturnedAfterContextDone => credOp.res \in TimedOutErrors

(***************************************************************************)
(* C16: a check, update or revocation whose context was done before every  *)
(* controller's result had arrived returns a timed out error unless its    *)
(* wait received every result; it returns before every result is received  *)
(* only with a timed out error, and the step that returns a timed out      *)
(* error leaves the catalog row, the secret store, the needs-update marks  *)
(* and the controllers' credentials as they are.                           *)
(***************************************************************************)
C16_TimedOutOrAllReceived ==
    [][/\ (credOp'.pc = "done" /\ credOp'.ctx = "early")
            => credOp'.res \in TimedOutErrors \/ credOp'.waiting = 0
       /\ (credOp'.pc = "done" /\ credOp'.waiting > 0)
            => credOp'.res \in TimedOutErrors
       /\ (Returns /\ credOp'.res \in TimedOutErrors)
            => NoCredentialWrite]_vars

\* an update timed out after the catalog was written and a controller took
\* the new credential, and both are still in place
C16_Witness ==
    /\ ReturnedAfterContextDone
    /\ credOp.kind = "UpdateCredential"
    /\ credOp.res = TimedOut("checking")
    /\ credOp.waiting > 0
    /\ credential.version = credOp.n
    /\ \E c \in credOp.controllers : ctlCredential[c] = credOp.n

(***************************************************************************)
(* Access to a model: JIMM.GrantModelAccess and JIMM.RevokeModelAccess     *)
(* (internal/jimm), JEM.GrantModel and JEM.RevokeModel (internal/jem)      *)
(***************************************************************************)
MaxAccessOps == 2

Levels == {"", "read", "write", "admin"}
AccessArgs == Levels \ {""}

\* a revoke that always removes the access
RevokedAccessNone(access) == ""

\* the access RevokeModelAccess records for the access named in the request
RevokedAccess(access) ==
    IF access = "admin" THEN "write"
    ELSE IF access = "write" THEN "read"
    ELSE ""

\* a call to the controller is always taken as accepted
AcceptedAlways(outcome) == TRUE

\* the controller accepted the call
Accepted(outcome) == outcome = "ok"

AccessIdle ==
    /\ accessOp.pc \in {"idle", "done"}
    /\ accessCount < MaxAccessOps

\* an entry of the log of calls
Event(op, where, ok, before, after) ==
    [n |-> op.n, kind |-> op.kind, where |-> where, ut |-> op.ut,
     access |-> op.access, ok |-> ok, before |-> before, after |-> after]

\* the authenticated user is a controller superuser or an admin of the model
ModelAdmin(u) == u \in Superusers \/ modelUsers[u] = "admin"

\* what GetModel, GetUser, dial and the controller may answer; a call that is
\* not reached has no answer to choose
AccessOutcomes(authorized) ==
    IF authorized THEN {"nomodel", "nouser", "dial", "rejected", "ok"}
    ELSE {"nomodel", "ok"}

\* the error when the check of the authenticated user is left out
ModelAccessErrUnchecked(authorized, outcome) ==
    IF outcome = "nomodel" THEN "model not found"
    ELSE IF outcome = "nouser" THEN "get user failed"
    ELSE IF outcome = "dial" THEN "dial failed"
    ELSE IF outcome = "rejected" THEN "controller refused"
    ELSE ""

\* the error of the part of GrantModelAccess, RevokeModelAccess and
\* DestroyModel that ends with the call to the controller
ModelAccessErr(authorized, outcome) ==
    IF outcome = "nomodel" THEN "model not found"
    ELSE IF ~authorized THEN "unauthorized"
    ELSE IF outcome = "nouser" THEN "get user failed"
    ELSE IF outcome = "dial" THEN "dial failed"
    ELSE IF outcome = "rejected" THEN "controller refused"
    ELSE ""

\* the operation returns an error before it called the controller: the record
\* keeps the caller and the error, not the arguments that were not used
AccessReturn(op, err) ==
    [NoAccessOp EXCEPT !.kind = op.kind, !.n = op.n, !.u = op.u,
                       !.pc = "done", !.res = err]

\* GrantModelAccess and RevokeModelAccess up to the call to the controller;
\* the target user and the access are read only by the call to the controller
ModelAccessController(kind) ==
    /\ AccessIdle
    /\ \E u \in Users : \E outcome \in AccessOutcomes(ModelAdmin(u)) :
       LET op == [NoAccessOp EXCEPT !.kind = kind, !.n = accessCount + 1,
                                    !.u = u]
           err == ModelAccessErr(ModelAdmin(u), outcome)
       IN IF err \notin {"", "controller refused"}
          THEN /\ accessLog' = <<>>
               /\ accessOp' = AccessReturn(op, err)
          ELSE \E ut \in Users, access \in AccessArgs :
               LET call == [op EXCEPT !.ut = ut, !.access = access]
               IN /\ accessLog' =
                       <<Event(call, "controller", outcome = "ok", "", "")>>
                  /\ accessOp' = IF Accepted(outcome)
                                 THEN [call EXCEPT !.pc = "controller"]
                                 ELSE [call EXCEPT !.pc = "done", !.res = err]
    /\ accessPrev' = accessLog
    /\ accessCount' = accessCount + 1
    /\ UNCHANGED modelUsers
    /\ UNCHANGED modelLife
    /\ UNCHANGED notAccessVars

\* the rest of GrantModelAccess and RevokeModelAccess: UpdateUserModelAccess
ModelAccessCatalog(kind, access) ==
    /\ accessOp.kind = kind
    /\ accessOp.pc = "controller"
    /\ \E dbOk \in BOOLEAN :
          /\ modelUsers' = IF dbOk
                           THEN [modelUsers EXCEPT ![accessOp.ut] = access]
                           ELSE modelUsers
          /\ accessLog' = Append(accessLog,
                Event(accessOp, "catalog", dbOk, modelUsers[accessOp.ut],
                      modelUsers'[accessOp.ut]))
          /\ accessOp' = [accessOp EXCEPT
                !.pc = "done",
                !.res = IF dbOk THEN ""
                        ELSE "cannot update database after updating controller"]
    /\ UNCHANGED <<accessPrev, accessCount>>
    /\ UNCHANGED modelLife
    /\ UNCHANGED notAccessVars

GrantModelAccess == ModelAccessController("GrantModelAccess")

GrantModelAccessUpdate == ModelAccessCatalog("GrantModelAccess", accessOp.access)

RevokeModelAccess == ModelAccessController("RevokeModelAccess")

RevokeModelAccessUpdate ==
    ModelAccessCatalog("RevokeModelAccess", RevokedAccess(accessOp.access))

\* JEM.GrantModel: the call to the controller
GrantModel ==
    /\ AccessIdle
    /\ \E ut \in Users, access \in AccessArgs, outcome \in {"rejected", "ok"} :
       LET op == [NoAccessOp EXCEPT !.kind = "GrantModel", !.n = accessCount + 1,
                                    !.ut = ut, !.access = access]
       IN /\ accessLog' = <<Event(op, "controller", outcome = "ok", "", "")>>
          /\ accessOp' = IF Accepted(outcome)
                         THEN [op EXCEPT !.pc = "controller"]
                         ELSE [op EXCEPT !.pc = "done", !.res = "controller refused"]
    /\ accessPrev' = accessLog
    /\ accessCount' = accessCount + 1
    /\ UNCHANGED modelUsers
    /\ UNCHANGED modelLife
    /\ UNCHANGED notAccessVars

\* JEM.GrantModel: the write to the database
GrantModelUpdate ==
    /\ accessOp.kind = "GrantModel"
    /\ accessOp.pc = "controller"
    /\ \E dbOk \in BOOLEAN :
          /\ accessLog' = Append(accessLog, Event(accessOp, "catalog", dbOk, "", ""))
          /\ accessOp' = [accessOp EXCEPT
                !.pc = "done",
                !.res = IF dbOk THEN "" ELSE "cannot update database"]
    /\ UNCHANGED <<modelUsers, accessPrev, accessCount>>
    /\ UNCHANGED modelLife
    /\ UNCHANGED notAccessVars

\* JEM.RevokeModel: the write to the database
RevokeModel ==
    /\ AccessIdle
    /\ \E ut \in Users, access \in AccessArgs, dbOk \in BOOLEAN :
       LET op == [NoAccessOp EXCEPT !.kind = "RevokeModel", !.n = accessCount + 1,
                                    !.ut = ut, !.access = access]
       IN /\ accessLog' = <<Event(op, "catalog", dbOk, "", "")>>
          /\ accessOp' = IF dbOk
                         THEN [op EXCEPT !.pc = "catalog"]
                         ELSE [op EXCEPT !.pc = "done", !.res = "cannot update database"]
    /\ accessPrev' = accessLog
    /\ accessCount' = accessCount + 1
    /\ UNCHANGED modelUsers
    /\ UNCHANGED modelLife
    /\ UNCHANGED notAccessVars

\* JEM.RevokeModel: the call to the controller
RevokeModelController ==
    /\ accessOp.kind = "RevokeModel"
    /\ accessOp.pc = "catalog"
    /\ \E outcome \in {"rejected", "ok"} :
          /\ accessLog' = Append(accessLog,
                Event(accessOp, "controller", outcome = "ok", "", ""))
          /\ accessOp' = [accessOp EXCEPT
                !.pc = "done",
                !.res = IF outcome = "ok" THEN "" ELSE "controller refused"]
    /\ UNCHANGED <<modelUsers, accessPrev, accessCount>>
    /\ UNCHANGED modelLife
    /\ UNCHANGED notAccessVars

\* DestroyModel up to the call to the controller
DestroyModel ==
    /\ AccessIdle
    /\ \E u \in Users :
       \E outcome \in AccessOutcomes(ModelAdmin(u)) \ {"nouser"} :
       LET op == [NoAccessOp EXCEPT !.kind = "DestroyModel",
                                    !.n = accessCount + 1, !.u = u]
           err == ModelAccessErr(ModelAdmin(u), outcome)
           called == err \in {"", "controller refused"}
       IN /\ accessLog' = IF called
                          THEN <<Event(op, "controller", outcome = "ok", "", "")>>
                          ELSE <<>>
          /\ accessOp' = IF called /\ Accepted(outcome)
                         THEN [op EXCEPT !.pc = "controller"]
                         ELSE IF called
                         THEN [op EXCEPT !.pc = "done", !.res = err]
                         ELSE AccessReturn(op, err)
    /\ accessPrev' = accessLog
    /\ accessCount' = accessCount + 1
    /\ UNCHANGED <<modelUsers, modelLife>>
    /\ UNCHANGED notAccessVars

\* the rest of DestroyModel: the model is stored as dying; a failure to
\* store it is logged and DestroyModel returns no error
DestroyModelUpdate ==
    /\ accessOp.kind = "DestroyModel"
    /\ accessOp.pc = "controller"
    /\ \E dbOk \in BOOLEAN :
          /\ modelLife' = IF dbOk THEN "dying" ELSE modelLife
          /\ accessLog' = Append(accessLog,
                Event(accessOp, "catalog", dbOk, modelLife, modelLife'))
    /\ accessOp' = [accessOp EXCEPT !.pc = "done", !.res = ""]
    /\ UNCHANGED <<modelUsers, accessPrev, accessCount>>
    /\ UNCHANGED notAccessVars

InitAccess ==
    /\ IdleShuffle
    /\ IdleAddModel
    /\ IdleCredential
    /\ IdleLookup
    /\ IdleGroup
    /\ IdleApply
    /\ IdlePool
    /\ IdleCache
    /\ IdleWatcher
    /\ IdleLogin
    /\ IdleCatalog
    /\ IdleFanout
    /\ IdleGetCred
    /\ IdleModelInfo
    /\ IdleCtl
    /\ modelUsers \in [Users -> Levels]
    /\ accessOp = NoAccessOp
    /\ accessLog = <<>>
    /\ accessPrev = <<>>
    /\ accessCount = 0
    /\ modelLife = "alive"

NextAccess ==
    \/ GrantModelAccess
    \/ GrantModelAccessUpdate
    \/ RevokeModelAccess
    \/ RevokeModelAccessUpdate
    \/ GrantModel
    \/ GrantModelUpdate
    \/ RevokeModel
    \/ RevokeModelController
    \/ DestroyModel
    \/ DestroyModelUpdate

SpecAccess == InitAccess /\ [][NextAccess]_vars

\* the level one below a level
LevelBelow(level) ==
    IF level = "admin" THEN "write" ELSE IF level = "write" THEN "read" ELSE ""

\* the log holds the catalog write of a RevokeModelAccess that succeeded
RevokeWrite(log) ==
    /\ Len(log) = 2
    /\ log[2].kind = "RevokeModelAccess"
    /\ log[2].where = "catalog"
    /\ log[2].ok

\* two successive revokes of admin from a user who had admin, both done
TwoRevokesOfAdmin ==
    /\ accessOp.pc = "done"
    /\ RevokeWrite(accessPrev) /\ RevokeWrite(accessLog)
    /\ accessPrev[2].ut = accessLog[2].ut
    /\ accessPrev[2].access = "admin" /\ accessLog[2].access = "admin"
    /\ accessPrev[2].before = "admin"

(***************************************************************************)
(* C9 as the specification states it: RevokeModelAccess lowers the access  *)
(* the catalog records for the user by one level from the level the user   *)
(* has, and two successive revokes of admin from a user with admin leave   *)
(* read.                                                                   *)
(***************************************************************************)
C9_OneBelowCurrent ==
    /\ \A log \in {accessPrev, accessLog} :
          RevokeWrite(log) => log[2].after = LevelBelow(log[2].before)
    /\ TwoRevokesOfAdmin => modelUsers[accessLog[2].ut] = "read"

(***************************************************************************)
(* C9: RevokeModelAccess sets the access the catalog records for the user  *)
(* to the level one below the level named in the request (admin to write,  *)
(* write to read, read to none), whatever level the user has; two          *)
(* successive revokes of admin from a user with admin leave write.         *)
(***************************************************************************)
C9_OneBelowRequested ==
    /\ \A log \in {accessPrev, accessLog} :
          RevokeWrite(log) => log[2].after = LevelBelow(log[2].access)
    /\ (accessOp.kind = "RevokeModelAccess" /\ accessOp.pc = "done"
            /\ accessOp.res = "")
          => /\ RevokeWrite(accessLog)
             /\ modelUsers[accessOp.ut] = LevelBelow(accessOp.access)
    /\ TwoRevokesOfAdmin => modelUsers[accessLog[2].ut] = "write"

C9_Witness == TwoRevokesOfAdmin

\* the operations of these kinds call the controller before they write the
\* catalog, and write it only if the controller accepted
ControllerFirst(kinds) ==
    \A log \in {accessPrev, accessLog} : \A i \in 1..Len(log) :
        log[i].kind \in kinds =>
            IF log[i].where = "catalog"
            THEN i = 2 /\ log[1].where = "controller" /\ log[1].ok
            ELSE i = 1

\* the operations of these kinds write the catalog before they call the
\* controller
CatalogFirst(kinds) ==
    \A log \in {accessPrev, accessLog} : \A i \in 1..Len(log) :
        log[i].kind \in kinds =>
            IF log[i].where = "controller"
            THEN i = 2 /\ log[1].where = "catalog" /\ log[1].ok
            ELSE i = 1

(***************************************************************************)
(* C10 as the specification states it: GrantModelAccess calls the          *)
(* controller first and writes the catalog only after the controller       *)
(* accepted; RevokeModelAccess writes the catalog first and calls the      *)
(* controller afterwards.                                                  *)
(***************************************************************************)
C10_RevokeCatalogFirst ==
    /\ ControllerFirst({"GrantModelAccess", "GrantModel"})
    /\ CatalogFirst({"RevokeModelAccess", "RevokeModel"})

(***************************************************************************)
(* C10: GrantModelAccess and RevokeModelAccess, and JEM.GrantModel, call   *)
(* the controller first and write the catalog only after the controller    *)
(* accepted; only JEM.RevokeModel writes the catalog first and calls the   *)
(* controller afterwards.                                                  *)
(***************************************************************************)
C10_ControllerFirstButRevokeModel ==
    /\ ControllerFirst({"GrantModelAccess", "RevokeModelAccess", "GrantModel"})
    /\ CatalogFirst({"RevokeModel"})

\* a RevokeModelAccess that called the controller and then wrote the
\* catalog, after a RevokeModel that wrote the catalog and then called the
\* controller
C10_Witness ==
    /\ Len(accessPrev) = 2 /\ Len(accessLog) = 2
    /\ accessPrev[1].kind = "RevokeModel" /\ accessPrev[1].where = "catalog"
    /\ accessPrev[2].kind = "RevokeModel" /\ accessPrev[2].where = "controller"
    /\ accessLog[1].kind = "RevokeModelAccess" /\ accessLog[1].where = "controller"
    /\ accessLog[2].kind = "RevokeModelAccess" /\ accessLog[2].where = "catalog"
    /\ accessLog[2].ok

\* an operation of JIMM on the model starts in this step
StartsModelOp ==
    /\ accessCount' = accessCount + 1
    /\ accessOp'.kind \in {"GrantModelAccess", "RevokeModelAccess", "DestroyModel"}

(***************************************************************************)
(* C11: GrantModelAccess, RevokeModelAccess and DestroyModel called on a   *)
(* model of the catalog by a user who is neither a controller superuser    *)
(* nor an admin of the model return Unauthorized in the step that starts   *)
(* them, make no call to the controller and leave the access and the life  *)
(* the catalog records unchanged.                                          *)
(***************************************************************************)
C11_UnauthorizedRefused ==
    [][(/\ StartsModelOp
        /\ ~ModelAdmin(accessOp'.u)
        /\ accessOp'.res # "model not found")
          => /\ accessOp'.pc = "done"
             /\ accessOp'.res = "unauthorized"
             /\ accessLog' = <<>>
             /\ modelUsers' = modelUsers
             /\ modelLife' = modelLife]_vars

\* bob lost admin by a RevokeModelAccess and his DestroyModel is then refused
C11_Witness ==
    /\ Len(accessPrev) = 2
    /\ accessPrev[2].kind = "RevokeModelAccess"
    /\ accessPrev[2].ut = "bob" /\ accessPrev[2].before = "admin"
    /\ accessPrev[2].ok
    /\ accessOp.kind = "DestroyModel" /\ accessOp.u = "bob"
    /\ accessOp.pc = "done" /\ accessOp.res = "unauthorized"
    /\ accessLog = <<>>
    /\ modelLife = "alive"

\* a call of DestroyModel returns in this step
DestroyReturns ==
    /\ accessOp'.kind = "DestroyModel"
    /\ accessOp'.pc = "done"
    /\ accessOp' # accessOp

\* C31: after DestroyModel returns success the model's life in the catalog is
\* dying; when the controller rejects the destroy request DestroyModel returns
\* that error and the model's life in the catalog is unchanged.
C31_DestroyedModelIsDying ==
    [][DestroyReturns =>
          /\ accessOp'.res = "" => modelLife' = "dying"
          /\ (accessLog' # <<>> /\ ~accessLog'[1].ok)
                => /\ accessOp'.res = "controller refused"
                   /\ modelLife' = modelLife]_vars

\* What holds of DestroyModel: it returns success exactly when the controller
\* accepted the request, the life is dying when the catalog then took the
\* update, and a call that returns an error leaves the life as it was.
DestroyedWhenStored ==
    [][DestroyReturns =>
          /\ accessOp'.res = ""
                => /\ Len(accessLog') = 2
                   /\ accessLog'[1].where = "controller" /\ accessLog'[1].ok
                   /\ accessLog'[2].where = "catalog"
                   /\ modelLife' = IF accessLog'[2].ok THEN "dying" ELSE modelLife
          /\ accessOp'.res # "" => modelLife' = modelLife
          /\ (accessLog' # <<>> /\ ~accessLog'[1].ok)
                => accessOp'.res = "controller refused"]_vars

\* DestroyModel has returned success and the catalog holds the model alive:
\* the update of the catalog failed and was only logged.
DestroyedButAlive ==
    /\ accessOp.kind = "DestroyModel"
    /\ accessOp.pc = "done"
    /\ accessOp.res = ""
    /\ modelLife = "alive"

\* The controller has rejected a DestroyModel: the call has returned the
\* error and the model is alive.
DestroyRejected ==
    /\ accessOp.kind = "DestroyModel"
    /\ accessOp.pc = "done"
    /\ accessOp.res = "controller refused"
    /\ Len(accessLog) = 1
    /\ modelLife = "alive"

(***************************************************************************)
(* JEM.GetModel: the model is read from the database and the identity is   *)
(* checked against the owner of the model and the ACLs of the access asked *)
(* for and of the stronger ones.                                           *)
(***************************************************************************)
\* the longest ACL of a model document
MaxACL == 2

\* the names an ACL or an owner may hold
ACLNames == {"bob", "bob-group", "everyone"}
Owners == {"bob", "fred", "bob-group"}
\* the identities: a user and the groups of the user
Identities ==
    {[user |-> "bob", groups |-> {}],
     [user |-> "bob", groups |-> {"bob-group"}],
     [user |-> "harry", groups |-> {}]}
\* the access levels of jujuparams, and a value that is none of them
ModelAccess == {"read", "write", "admin"}
AccessAsked == ModelAccess \cup {"other"}

\* the three ACLs of a model document
ACLs ==
    [read : InjSeqs(ACLNames, MaxACL), write : InjSeqs(ACLNames, MaxACL),
     admin : InjSeqs(ACLNames, MaxACL)]

\* the ACL of a switch whose cases do not fall through
ACLForNoFallthrough(m, access) ==
    LET acl == <<m.owner>>
    IN IF access = "read" THEN acl \o m.acl.read
       ELSE IF access = "write" THEN acl \o m.acl.write
       ELSE IF access = "admin" THEN acl \o m.acl.admin
       ELSE acl

\* the ACL GetModel builds: the owner, then the ACLs from the access asked
\* for on to admin
ACLFor(m, access) ==
    LET acl == <<m.owner>>
        read == IF access = "read" THEN acl \o m.acl.read ELSE acl
        write == IF access \in {"read", "write"}
                 THEN read \o m.acl.write ELSE read
    IN IF access \in {"read", "write", "admin"}
       THEN write \o m.acl.admin ELSE write

\* auth.CheckACL: the identity is allowed when its user, one of its groups or
\* "everyone" is in the ACL
CheckACL(id, acl) ==
    \E i \in 1..Len(acl) : acl[i] \in {id.user} \cup id.groups \cup {"everyone"}

\* the result of GetModel
GetModelResult(found, m, id, access) ==
    IF ~found THEN "not found"
    ELSE IF ~CheckACL(id, ACLFor(m, access)) THEN "unauthorized"
    ELSE "ok"

GetModel ==
    /\ \E access \in AccessAsked :
          /\ lookupRes[access] = ""
          /\ lookupRes' = [lookupRes EXCEPT ![access] =
                GetModelResult(lookupModel.found, lookupModel, lookupID, access)]
    /\ UNCHANGED <<lookupModel, lookupID>>
    /\ UNCHANGED notLookupVars

InitLookup ==
    /\ IdleShuffle
    /\ IdleAddModel
    /\ IdleCredential
    /\ IdleAccess
    /\ IdleGroup
    /\ IdleApply
    /\ IdlePool
    /\ IdleCache
    /\ IdleWatcher
    /\ IdleLogin
    /\ IdleCatalog
    /\ IdleFanout
    /\ IdleGetCred
    /\ IdleModelInfo
    /\ IdleCtl
    /\ lookupModel \in [found : BOOLEAN, owner : Owners, acl : ACLs]
    /\ lookupID \in Identities
    /\ lookupRes = [access \in AccessAsked |-> ""]

NextLookup == GetModel

SpecLookup == InitLookup /\ [][NextLookup]_vars

\* the names the identity of the request answers to
IdentityNames == {lookupID.user} \cup lookupID.groups \cup {"everyone"}

\* the access levels that are the given one or stronger
AtLeast(level) ==
    IF level = "read" THEN {"read", "write", "admin"}
    ELSE IF level = "write" THEN {"write", "admin"}
    ELSE {"admin"}

\* the identity is the owner of the model or in the ACL of the level or of a
\* stronger one
PermittedAt(level) ==
    \E name \in IdentityNames :
        \/ name = lookupModel.owner
        \/ \E l \in AtLeast(level) : name \in Range(lookupModel.acl[l])

(***************************************************************************)
(* C12: GetModel of a model the database holds, asked for access level L,  *)
(* permits the identity iff the user, one of its groups or "everyone" is   *)
(* the owner of the model or is in the ACL of L or of a stronger level,    *)
(* and refuses it with Unauthorized otherwise; so an identity permitted at *)
(* admin is permitted at write and read, and one permitted at write is     *)
(* permitted at read.                                                      *)
(***************************************************************************)
C12_RequestedOrStronger ==
    lookupModel.found =>
       /\ \A level \in ModelAccess :
             lookupRes[level] # "" =>
                /\ lookupRes[level] = "ok" <=> PermittedAt(level)
                /\ lookupRes[level] = "unauthorized" <=> ~PermittedAt(level)
       /\ \A strong \in ModelAccess : \A weak \in AtLeast("read") :
             (/\ strong \in AtLeast(weak)
              /\ lookupRes[strong] = "ok"
              /\ lookupRes[weak] # "") => lookupRes[weak] = "ok"

\* a member of a group in the read ACL is permitted at read and refused at
\* write and admin
C12_Witness ==
    /\ lookupModel.found
    /\ lookupID = [user |-> "bob", groups |-> {"bob-group"}]
    /\ lookupModel.owner = "fred"
    /\ Range(lookupModel.acl.read) = {"bob-group"}
    /\ lookupRes["read"] = "ok"
    /\ lookupRes["write"] = "unauthorized"
    /\ lookupRes["admin"] = "unauthorized"

(***************************************************************************)
(* OpenFGA tuples and OFGAClient.RemoveGroup.                              *)
(***************************************************************************)
\* the page size removeTuples reads with, 50 in the code, scaled down
PageSize == 1
\* the RemoveGroup calls of a run
MaxGroupOps == 2

GroupIDs == {1, 2}

\* the kinds RemoveGroup loops over
resourceTypes == <<"user", "model", "controller", "applicationoffer", "group">>

\* a tag, with the relation of a tag such as group:1#member
Tag(kind, id, rel) == [kind |-> kind, id |-> id, rel |-> rel]

Tuple(object, relation, target) ==
    [object |-> object, relation |-> relation, target |-> target]

\* the tag of a group is made of its numeric id
GroupTag(g, rel) == Tag("group", ToString(g), rel)

\* the tuples a store may hold, in the order the store returns them
Tuples ==
    <<Tuple(Tag("user", "bob", ""), "member", GroupTag(1, "")),
      Tuple(GroupTag(1, "member"), "administrator", Tag("controller", "c", "")),
      Tuple(GroupTag(2, "member"), "member", GroupTag(1, "")),
      Tuple(GroupTag(1, "member"), "writer", Tag("model", "m", "")),
      Tuple(Tag("user", "bob", ""), "member", GroupTag(2, "")),
      Tuple(GroupTag(1, "member"), "member", GroupTag(2, "")),
      Tuple(GroupTag(1, "member"), "consumer", Tag("applicationoffer", "o", "")),
      Tuple(GroupTag(2, "member"), "writer", Tag("model", "m", "")),
      Tuple(GroupTag(1, "member"), "administrator", Tag("cloud", "k", "")),
      Tuple(Tag("user", "alice", ""), "reader", Tag("model", "m", ""))>>

\* the key of a read: "" stands for a part that is not given
GroupTargetKey(g) ==
    Tuple(Tag("", "", ""), "member", GroupTag(g, ""))

\* the key of all tuples of the members of a group on targets of a kind
GroupObjectKey(g, kind) ==
    Tuple(GroupTag(g, "member"), "", Tag(kind, "", ""))

\* a match that looks at the kind of the target only
MatchesKind(t, key) == t.target.kind = key.target.kind

\* the store's match of a tuple with the key of a read
Matches(t, key) ==
    /\ key.object.kind # "" => t.object = key.object
    /\ key.relation # "" => t.relation = key.relation
    /\ t.target.kind = key.target.kind
    /\ key.target.id # "" => t.target.id = key.target.id

\* the first n elements of a set of numbers
FirstN(S, n) == {i \in S : Cardinality({j \in S : j < i}) < n}

SetMax(S) == CHOOSE i \in S : \A j \in S : j <= i

\* the tuples of one page: those after the token that match the key
Page(key, token) ==
    FirstN({i \in tupleStore : i > token /\ Matches(Tuples[i], key)}, PageSize)

\* the continuation tokens the store may return with a page: none when the
\* page is the last one; a store may also return one with a full last page
PageTokens(key, token) ==
    LET page == Page(key, token)
        rest == {i \in tupleStore : i > token /\ Matches(Tuples[i], key)} \ page
    IN IF rest # {} THEN {SetMax(page)}
       ELSE IF Cardinality(page) = PageSize THEN {0, SetMax(page)}
       ELSE {0}

\* the key of a phase of RemoveGroup: the members of the group first, then
\* the tuples of the group on each kind of resourceTypes
RemoveGroupKey(g, phase) ==
    IF phase = 0 THEN GroupTargetKey(g)
    ELSE GroupObjectKey(g, resourceTypes[phase])

RemoveGroupErr == {"", "read failed", "write failed"}

\* a loop that ends after its first page
LoopStops(token, resp) == FALSE

\* the condition of the loop of removeTuples: token != resp.PaginationToken
LoopContinues(token, resp) == token # resp

\* OFGAClient.RemoveGroup is called
RemoveGroup ==
    /\ removeOp.pc \in {"idle", "done"}
    /\ groupOps < MaxGroupOps
    /\ \E g \in GroupIDs :
          removeOp' = [NoRemoveOp EXCEPT !.pc = "run", !.group = g]
    /\ groupOps' = groupOps + 1
    /\ UNCHANGED <<groupTable, tupleStore, nextGroupID, groupCalls>>
    /\ UNCHANGED notGroupVars

\* one round of the loop of removeTuples: a page is read and its tuples are
\* removed; the loop ends when the token of the page is the token the page
\* was read with, and RemoveGroup then goes on to the next kind or returns
removeTuples ==
    /\ removeOp.pc = "run"
    /\ LET token == IF removeOp.first THEN removeOp.token ELSE removeOp.resp
           key == RemoveGroupKey(removeOp.group, removeOp.phase)
           page == Page(key, token)
       IN \E err \in RemoveGroupErr, resp \in PageTokens(key, token) :
          IF err = "read failed" \/ (err = "write failed" /\ page # {})
          THEN /\ removeOp' = [NoRemoveOp EXCEPT !.pc = "done",
                                  !.group = removeOp.group, !.res = err,
                                  !.removed = removeOp.removed]
               /\ UNCHANGED tupleStore
          ELSE /\ err = ""
               /\ tupleStore' = tupleStore \ page
               /\ removeOp' =
                    IF LoopContinues(token, resp)
                    THEN [removeOp EXCEPT !.token = token, !.resp = resp,
                                          !.first = FALSE,
                                          !.removed = @ \/ page # {}]
                    ELSE IF removeOp.phase < Len(resourceTypes)
                    THEN [NoRemoveOp EXCEPT !.pc = "run",
                             !.group = removeOp.group,
                             !.phase = removeOp.phase + 1,
                             !.removed = removeOp.removed \/ page # {}]
                    ELSE [NoRemoveOp EXCEPT !.pc = "done",
                             !.group = removeOp.group,
                             !.removed = removeOp.removed \/ page # {}]
    /\ UNCHANGED <<groupTable, groupOps, nextGroupID, groupCalls>>
    /\ UNCHANGED notGroupVars

\* AddRelations: tuples are written to the store; the requests are served
\* one after another, none while RemoveGroup runs
AddRelations ==
    /\ removeOp.pc # "run"
    /\ \E i \in (1..Len(Tuples)) \ tupleStore :
          tupleStore' = tupleStore \cup {i}
    /\ UNCHANGED <<groupTable, removeOp, groupOps, nextGroupID, groupCalls>>
    /\ UNCHANGED notGroupVars

InitGroup ==
    /\ IdleShuffle
    /\ IdleAddModel
    /\ IdleCredential
    /\ IdleAccess
    /\ IdleLookup
    /\ IdleApply
    /\ IdlePool
    /\ IdleCache
    /\ IdleWatcher
    /\ IdleLogin
    /\ IdleCatalog
    /\ IdleFanout
    /\ IdleGetCred
    /\ IdleModelInfo
    /\ IdleCtl
    /\ groupTable = {}
    /\ tupleStore = {}
    /\ removeOp = NoRemoveOp
    /\ groupOps = 0
    /\ nextGroupID = 1
    /\ groupCalls = <<>>

NextGroup ==
    \/ AddRelations
    \/ RemoveGroup
    \/ removeTuples

SpecGroup == InitGroup /\ [][NextGroup]_vars

\* the tuple has the group as its target or the members of the group as its
\* object
Mentions(t, g) ==
    \/ t.target = GroupTag(g, "")
    \/ t.object = GroupTag(g, "member")

RemoveGroupReturns == removeOp.pc = "run" /\ removeOp'.pc = "done"

(***************************************************************************)
(* C13 as the specification states it: when RemoveGroup(g) returns without *)
(* an error, the store holds no tuple whose object is g#member or whose    *)
(* target is g, whatever the kind of the other end, clouds included.       *)
(***************************************************************************)
C13_NoTupleOfGroupRemains ==
    [][(RemoveGroupReturns /\ removeOp'.res = "")
          => \A i \in tupleStore' : ~Mentions(Tuples[i], removeOp'.group)]_vars

\* what the code does achieve: the tuples of the group on the kinds of
\* resourceTypes are removed, and no other tuple is
RemoveGroupOfResourceTypes ==
    [][(RemoveGroupReturns /\ removeOp'.res = "")
          => /\ \A i \in tupleStore' :
                   Mentions(Tuples[i], removeOp'.group)
                      => Tuples[i].target.kind \notin Range(resourceTypes)
             /\ \A i \in tupleStore \ tupleStore' :
                   Mentions(Tuples[i], removeOp'.group)]_vars

\* C35: RemoveGroup(g) deletes only tuples that reference g as object or as
\* target: every tuple that references g at neither end is still present
\* after the call.
C35_OnlyTuplesOfGroupRemoved ==
    [][\A i \in tupleStore \ tupleStore' :
          /\ removeOp.pc = "run"
          /\ Mentions(Tuples[i], removeOp.group)]_vars

\* RemoveGroup of group 1 has returned without an error and has removed
\* tuples; the tuples of group 2 alone and the tuple of alice on the model,
\* which were in the store during the call, are still there.
C35_Witness ==
    /\ removeOp.pc = "done"
    /\ removeOp.group = 1
    /\ removeOp.res = ""
    /\ removeOp.removed
    /\ groupOps = 1
    /\ tupleStore = {5, 8, 10}

\* the goroutine of a call of RemoveGroup goes on to its next round
SpecGroupFair == SpecGroup /\ WF_vars(removeTuples)

\* a round of removeTuples ends its loop without an error
RemoveTuplesReturns ==
    /\ removeOp.pc = "run"
    /\ \/ removeOp'.pc = "run" /\ removeOp'.phase = removeOp.phase + 1
       \/ removeOp'.pc = "done" /\ removeOp'.res = ""

\* C36: removeTuples terminates for every finite set of matching tuples,
\* whether it fits in one page or spans several, provided no matching tuple
\* is added concurrently, and when it returns without error no tuple
\* matching the given pattern remains in the store.
C36_RemoveTuplesTerminatesAndEmpties ==
    /\ (removeOp.pc = "run") ~> (removeOp.pc = "done")
    /\ [][RemoveTuplesReturns
             => \A i \in tupleStore' :
                   ~Matches(Tuples[i], RemoveGroupKey(removeOp.group,
                                                      removeOp.phase))]_vars

\* the loop of removeTuples for the members of group 1 is in a later round,
\* after a first page that was full and came with a token: the matching
\* tuples span several pages
C36_Witness ==
    /\ removeOp.pc = "run"
    /\ removeOp.group = 1
    /\ removeOp.phase = 0
    /\ ~removeOp.first
    /\ removeOp.resp = 1
    /\ removeOp.removed
    /\ 3 \in tupleStore

(***************************************************************************)
(* The groups of the database: AddGroup and RenameGroup.  A group has a    *)
(* unique name and a numeric id that the tuples of the group are made of.  *)
(***************************************************************************)
\* the callers that may run at the same time
Callers == {1, 2, 3}
GroupNames == {"a", "b", "c"}

\* the groups the database starts with, as createTestControllerEnvironment
\* and the tests add them
InitialGroups == {[id |-> 1, name |-> "a"], [id |-> 2, name |-> "b"]}

\* the memberships and the access of a group the store starts with
InitialTuples == {1, 3, 4, 5}

\* the id of the group of a name, 0 when there is none
GroupID(rows, name) ==
    IF \E row \in rows : row.name = name
    THEN (CHOOSE row \in rows : row.name = name).id
    ELSE 0

\* an insert that does not look at the names in the table
AddGroupErrUnchecked(rows, name) == ""

\* the error of the insert of a group: the name is unique
AddGroupErr(rows, name) ==
    IF \E row \in rows : row.name = name THEN "already exists" ELSE ""

\* a rename that stores the group as a new row with the next id
RenamedRowNewID(row, newName, next) == [id |-> next, name |-> newName]

\* the row of a group after a rename: the id is kept
RenamedRow(row, newName, next) == [row EXCEPT !.name = newName]

\* a caller calls AddGroup
AddGroupCall(c) ==
    /\ groupCalls[c].pc = "idle"
    /\ \E name \in GroupNames :
          groupCalls' = [groupCalls EXCEPT ![c] =
              [NoGroupCall EXCEPT !.kind = "AddGroup", !.pc = "called",
                                  !.name = name]]
    /\ UNCHANGED <<groupTable, tupleStore, removeOp, groupOps, nextGroupID>>
    /\ UNCHANGED notGroupVars

\* the insert of AddGroup and its return
AddGroup(c) ==
    /\ groupCalls[c].kind = "AddGroup"
    /\ groupCalls[c].pc = "called"
    /\ LET name == groupCalls[c].name
           err == AddGroupErr(groupTable, name)
       IN /\ groupTable' = IF err = ""
                           THEN groupTable \cup {[id |-> nextGroupID, name |-> name]}
                           ELSE groupTable
          /\ nextGroupID' = IF err = "" THEN nextGroupID + 1 ELSE nextGroupID
          /\ groupCalls' = [groupCalls EXCEPT ![c].pc = "done", ![c].res = err]
    /\ UNCHANGED <<tupleStore, removeOp, groupOps>>
    /\ UNCHANGED notGroupVars

\* a caller calls RenameGroup
RenameGroupCall(c) ==
    /\ groupCalls[c].pc = "idle"
    /\ \E name \in GroupNames, newName \in GroupNames :
          groupCalls' = [groupCalls EXCEPT ![c] =
              [NoGroupCall EXCEPT !.kind = "RenameGroup", !.pc = "called",
                                  !.name = name, !.newName = newName]]
    /\ UNCHANGED <<groupTable, tupleStore, removeOp, groupOps, nextGroupID>>
    /\ UNCHANGED notGroupVars

\* the update of RenameGroup and its return
RenameGroup(c) ==
    /\ groupCalls[c].kind = "RenameGroup"
    /\ groupCalls[c].pc = "called"
    /\ LET name == groupCalls[c].name
           newName == groupCalls[c].newName
           id == GroupID(groupTable, name)
           row == [id |-> id, name |-> name]
           err == IF id = 0 THEN "not found"
                  ELSE IF newName = name THEN ""
                  ELSE AddGroupErr(groupTable, newName)
           renamed == RenamedRow(row, newName, nextGroupID)
       IN /\ groupTable' = IF err = ""
                           THEN (groupTable \ {row}) \cup {renamed}
                           ELSE groupTable
          /\ nextGroupID' = IF err = "" /\ renamed.id = nextGroupID
                            THEN nextGroupID + 1 ELSE nextGroupID
          /\ groupCalls' = [groupCalls EXCEPT ![c].pc = "done", ![c].res = err]
    /\ UNCHANGED <<tupleStore, removeOp, groupOps>>
    /\ UNCHANGED notGroupVars

InitGroupTable ==
    /\ IdleShuffle
    /\ IdleAddModel
    /\ IdleCredential
    /\ IdleAccess
    /\ IdleLookup
    /\ IdleApply
    /\ IdlePool
    /\ IdleCache
    /\ IdleWatcher
    /\ IdleLogin
    /\ IdleCatalog
    /\ IdleFanout
    /\ IdleGetCred
    /\ IdleModelInfo
    /\ IdleCtl
    /\ groupTable = InitialGroups
    /\ nextGroupID = 3
    /\ tupleStore \in SUBSET InitialTuples
    /\ removeOp = NoRemoveOp
    /\ groupOps = 0
    /\ groupCalls = [c \in Callers |-> NoGroupCall]

NextGroupTable ==
    \/ \E c \in Callers : AddGroupCall(c)
    \/ \E c \in Callers : AddGroup(c)
    \/ \E c \in Callers : RenameGroupCall(c)
    \/ \E c \in Callers : RenameGroup(c)

SpecGroupTable == InitGroupTable /\ [][NextGroupTable]_vars

\* the groups a user is a member of, directly or through nested groups; the
\* tuples name the groups of GroupIDs
RECURSIVE MemberOf(_, _, _)
MemberOf(store, user, n) ==
    IF n = 0
    THEN {g \in GroupIDs :
             \E i \in store :
                Tuples[i] = Tuple(Tag("user", user, ""), "member", GroupTag(g, ""))}
    ELSE LET inner == MemberOf(store, user, n - 1)
         IN inner \cup
            {g \in GroupIDs :
                \E h \in inner, i \in store :
                   Tuples[i] = Tuple(GroupTag(h, "member"), "member", GroupTag(g, ""))}

\* check: the user reaches the target by the relation, directly or through
\* the #member edges of groups
Allowed(store, user, relation, target) ==
    LET groups == MemberOf(store, user, Cardinality(GroupIDs))
    IN \/ \E i \in store :
             Tuples[i] = Tuple(Tag("user", user, ""), relation, target)
       \/ \E g \in groups, i \in store :
             Tuples[i] = Tuple(GroupTag(g, "member"), relation, target)
       \/ /\ relation = "member"
          /\ \E g \in groups : target = GroupTag(g, "")

\* the checks a request may make: on a group by its name, on the model
CheckUsers == {"alice", "bob"}
CheckRelations == {"member", "writer", "reader"}

\* a check on the group of a name
AllowedOnGroup(rows, store, user, name) ==
    /\ GroupID(rows, name) # 0
    /\ Allowed(store, user, "member", GroupTag(GroupID(rows, name), ""))

\* a RenameGroup returns without an error in this step
Renames(c) ==
    /\ groupCalls[c].kind = "RenameGroup"
    /\ groupCalls[c].pc = "called"
    /\ groupCalls'[c].pc = "done"
    /\ groupCalls'[c].res = ""

(***************************************************************************)
(* C14: a RenameGroup that succeeds changes only the name of the group:    *)
(* the group keeps its id and the other groups their rows, no tuple is     *)
(* written or removed, and every check that was allowed before is allowed  *)
(* after: on the model, also through the membership of the group, and on   *)
(* the group itself, asked for by its new name.                            *)
(***************************************************************************)
C14_RenameKeepsAccess ==
    [][\A c \in Callers : Renames(c) =>
          LET name == groupCalls[c].name
              newName == groupCalls[c].newName
          IN /\ GroupID(groupTable', newName) = GroupID(groupTable, name)
             /\ {row.id : row \in groupTable'} = {row.id : row \in groupTable}
             /\ \A row \in groupTable :
                   row.name # name => row \in groupTable'
             /\ tupleStore' = tupleStore
             /\ \A user \in CheckUsers :
                   /\ AllowedOnGroup(groupTable, tupleStore, user, name)
                         => AllowedOnGroup(groupTable', tupleStore', user, newName)
                   /\ \A relation \in CheckRelations :
                         Allowed(tupleStore, user, relation, Tag("model", "m", ""))
                            => Allowed(tupleStore', user, relation,
                                       Tag("model", "m", ""))]_vars

\* group a was renamed to c, and bob, a member of it through group b, is
\* allowed on the group by its new name and writes the model through it
C14_Witness ==
    /\ \E c \in Callers :
          /\ groupCalls[c].kind = "RenameGroup" /\ groupCalls[c].pc = "done"
          /\ groupCalls[c].res = ""
          /\ groupCalls[c].name = "a" /\ groupCalls[c].newName = "c"
    /\ [id |-> 1, name |-> "c"] \in groupTable
    /\ tupleStore = {3, 4, 5}
    /\ AllowedOnGroup(groupTable, tupleStore, "bob", "c")
    /\ Allowed(tupleStore, "bob", "writer", Tag("model", "m", ""))

\* the AddGroup calls of a name that have returned
AddGroupDone(name) ==
    {c \in Callers : /\ groupCalls[c].kind = "AddGroup"
                     /\ groupCalls[c].name = name
                     /\ groupCalls[c].pc = "done"}

\* only AddGroup calls have used the name: no group had it at the start and
\* no RenameGroup call names it
OnlyAdded(name) ==
    /\ \A row \in InitialGroups : row.name # name
    /\ \A c \in Callers :
          groupCalls[c].kind = "RenameGroup"
             => groupCalls[c].name # name /\ groupCalls[c].newName # name

(***************************************************************************)
(* C15: of the AddGroup calls with the same name, running at the same time *)
(* or one after another, on a name no group has and no rename uses,        *)
(* exactly one of those that returned succeeded and every other returned   *)
(* AlreadyExists, and exactly one group has the name; no two groups ever   *)
(* have the same name.                                                     *)
(***************************************************************************)
C15_OneAddGroupSucceeds ==
    /\ \A row1, row2 \in groupTable : row1.name = row2.name => row1 = row2
    /\ \A name \in GroupNames :
          (OnlyAdded(name) /\ AddGroupDone(name) # {}) =>
             /\ Cardinality({c \in AddGroupDone(name) : groupCalls[c].res = ""}) = 1
             /\ \A c \in AddGroupDone(name) :
                   groupCalls[c].res \in {"", "already exists"}
             /\ Cardinality({row \in groupTable : row.name = name}) = 1

\* three AddGroup calls of the same name have returned: one succeeded
C15_Witness ==
    /\ AddGroupDone("c") = Callers
    /\ \E c \in Callers :
          /\ groupCalls[c].res = ""
          /\ \A d \in Callers \ {c} : groupCalls[d].res = "already exists"
    /\ [id |-> 3, name |-> "c"] \in groupTable

(***************************************************************************)
(* UpdateCredential applied in succession, and the rows written when a     *)
(* secret store is configured.  A call of UpdateCredential is taken here   *)
(* with its goroutines as one step: the call and every push it started     *)
(* have ended before the next call starts.                                 *)
(***************************************************************************)

Contents == {1, 2}

\* the answers of the database, the secret store and the controllers ctls to
\* one call, as far as the call with these flags gets to ask for them
Envs(cfg, ctls, call) ==
    LET flags == EffectiveFlags(call.flags)
        silent == [c \in ctls |-> "ok"]
        base == [get |-> FALSE, checks |-> silent, write |-> "ok",
                 push |-> silent]
        writes == IF cfg.VaultClient THEN WriteOutcomes
                  ELSE WriteOutcomes \ {"vault"}
        updates(e) ==
            {[e EXCEPT !.write = w] : w \in writes \ {"ok"}}
                \cup {[e EXCEPT !.push = p] : p \in [ctls -> PushOutcomes]}
    IN IF call.Revoked THEN {base}
       ELSE {[base EXCEPT !.get = TRUE]} \cup
            (IF ~HasFlag(flags, CredentialCheck) THEN updates(base)
             ELSE UNION {IF CheckFailing(ctls, checks) # {}
                            \/ ~HasFlag(flags, CredentialUpdate)
                         THEN {[base EXCEPT !.checks = checks]}
                         ELSE updates([base EXCEPT !.checks = checks]) :
                         checks \in [ctls -> CheckOutcomes]})

\* the holding controllers of the row after DB.updateCredential: the list is
\* the catalog's, kept as models are created, and not the caller's
UpsertControllers(row, call) == row.Controllers

\* a row written with the attributes although a vault is configured
RowWrittenPlain(cfg, row, call) ==
    [found |-> TRUE, content |-> call.content, Attributes |-> call.content,
     Controllers |-> UpsertControllers(row, call), Revoked |-> FALSE,
     AttributesInVault |-> cfg.VaultClient]

\* the row DB.updateCredential leaves for the credential of the call: with a
\* vault the copy cred1 without attributes, marked as held in the vault
RowWritten(cfg, row, call) ==
    [found |-> TRUE, content |-> call.content,
     Attributes |-> IF cfg.VaultClient THEN NoCredential ELSE call.content,
     Controllers |-> UpsertControllers(row, call), Revoked |-> FALSE,
     AttributesInVault |-> cfg.VaultClient]

\* a controller that refuses a credential equal to the one it holds
PushAnswerOnce(copy, content, outcome) ==
    IF copy = content THEN "rejected" ELSE outcome

\* what the push to a controller holding copy comes to
PushAnswer(copy, content, outcome) == outcome

\* the stores after UpdateCredential and its pushes ended, from the stores s
UpdateCredentialApplied(cfg, s, call, env) ==
    LET ctls == IF s.row.found THEN s.row.Controllers ELSE {}
        flags == EffectiveFlags(call.flags)
        row1 == RowWritten(cfg, s.row, call)
        answer(c) == PushAnswer(s.copies[c], call.content, env.push[c])
    IN IF call.Revoked \/ env.get THEN s
       ELSE IF /\ HasFlag(flags, CredentialCheck)
               /\ \/ CheckFailing(ctls, env.checks) # {}
                  \/ ~HasFlag(flags, CredentialUpdate)
       THEN s
       ELSE IF env.write = "db" THEN s
       ELSE IF env.write = "vault" THEN [s EXCEPT !.row = row1]
       ELSE IF env.write = "mark"
       THEN [s EXCEPT !.row = row1,
                      !.secret = IF cfg.VaultClient THEN call.content ELSE @]
       ELSE [row |-> row1,
             secret |-> IF cfg.VaultClient THEN call.content ELSE s.secret,
             updates |-> (s.updates \cup call.Controllers)
                            \ {c \in ctls : answer(c) = "ok"},
             copies |-> [c \in ControllerIDs |->
                            IF c \in ctls /\ answer(c) \in {"clear", "ok"}
                            THEN call.content ELSE s.copies[c]]]

\* UpdateCredential is called with the credential and flags of applyCall
ApplyUpdateCredential ==
    /\ applyPc \in {"none", "once"}
    /\ LET ctls == IF applyStore.row.found THEN applyStore.row.Controllers
                   ELSE {}
       IN \E env \in Envs(applyConfig, ctls, applyCall) :
          LET s1 == UpdateCredentialApplied(applyConfig, applyStore,
                                            applyCall, env)
          IN /\ applyStore' = s1
             /\ IF applyPc = "none"
                THEN /\ applyEnv' = env
                     /\ applyOnce' = s1
                     /\ applySame' = TRUE
                     /\ applyPc' = "once"
                ELSE /\ applySame' = (env = applyEnv)
                     /\ applyPc' = "twice"
                     /\ UNCHANGED <<applyEnv, applyOnce>>
    /\ UNCHANGED <<applyConfig, applyCall, controllerRows, controllerSecrets>>
    /\ UNCHANGED notApplyVars

\* the stores a credential can be in before a call
ApplyStores(cfg) ==
    {[row |-> [found |-> held.found,
               content |-> IF held.found THEN 1 ELSE NoCredential,
               Attributes |-> IF held.found /\ ~cfg.VaultClient THEN 1
                              ELSE NoCredential,
               Controllers |-> held.ctls, Revoked |-> FALSE,
               AttributesInVault |-> held.found /\ cfg.VaultClient],
      secret |-> IF held.found /\ cfg.VaultClient THEN 1 ELSE NoCredential,
      updates |-> updates,
      copies |-> [c \in ControllerIDs |->
                     IF c \in held.ctls THEN 1 ELSE NoCredential]] :
        held \in {h \in [found : BOOLEAN, ctls : SUBSET ControllerIDs] :
                     ~h.found => h.ctls = {}},
        updates \in SUBSET ControllerIDs}

ApplyCalls ==
    [content : Contents, Controllers : SUBSET ControllerIDs,
     Revoked : BOOLEAN, flags : 0..AllFlags]

InitApply ==
    /\ IdleShuffle
    /\ IdleAddModel
    /\ IdleCredential
    /\ IdleAccess
    /\ IdleLookup
    /\ IdleGroup
    /\ IdlePool
    /\ IdleCache
    /\ IdleWatcher
    /\ IdleLogin
    /\ IdleCatalog
    /\ IdleFanout
    /\ IdleGetCred
    /\ IdleModelInfo
    /\ IdleCtl
    /\ applyConfig \in [VaultClient : BOOLEAN, CredentialStore : {FALSE}]
    /\ applyStore \in ApplyStores(applyConfig)
    /\ applyCall \in ApplyCalls
    /\ applyEnv = NoEnv
    /\ applySame = TRUE
    /\ applyOnce = applyStore
    /\ applyPc = "none"
    /\ controllerRows = [n \in ControllerNames |-> NoControllerRow]
    /\ controllerSecrets = {}

NextApply == ApplyUpdateCredential

SpecApply == InitApply /\ [][NextApply]_vars

\* the call was made twice and was answered the second time as the first
AppliedTwice == applyPc = "twice" /\ applySame

UpdateTwiceAnyAnswers == applyPc = "twice" => applyStore = applyOnce

\* the controllers AddController is given
ControllerArgs == [AdminUser : {"admin"}, AdminPassword : {"", "secret"}]

\* the row tx.AddController writes: without the credentials when the
\* credential store took them
ControllerRow(credentialsStored, ctl) ==
    [found |-> TRUE,
     AdminUser |-> IF credentialsStored THEN "" ELSE ctl.AdminUser,
     AdminPassword |-> IF credentialsStored THEN "" ELSE ctl.AdminPassword]

AddControllerOutcomes == {"unauthorized", "dial", "summary", "put", "tx", "ok"}

\* JIMM.AddController for a controller named n
AddController(n) ==
    /\ \E ctl \in ControllerArgs, outcome \in AddControllerOutcomes :
          /\ outcome = "put" => applyConfig.CredentialStore
          /\ LET reached == outcome \in {"tx", "ok"}
                 credentialsStored == applyConfig.CredentialStore /\ reached
             IN /\ controllerSecrets' =
                      IF credentialsStored THEN controllerSecrets \cup {n}
                      ELSE controllerSecrets
                /\ controllerRows' =
                      IF outcome = "ok" /\ ~controllerRows[n].found
                      THEN [controllerRows EXCEPT
                               ![n] = ControllerRow(credentialsStored, ctl)]
                      ELSE controllerRows
    /\ UNCHANGED <<applyConfig, applyStore, applyCall, applyEnv, applySame,
                   applyOnce, applyPc>>
    /\ UNCHANGED notApplyVars

\* the controllers the catalog holds at the start
InitialControllers == {{}, {"c1"}}

InitSecret ==
    /\ IdleShuffle
    /\ IdleAddModel
    /\ IdleCredential
    /\ IdleAccess
    /\ IdleLookup
    /\ IdleGroup
    /\ IdlePool
    /\ IdleCache
    /\ IdleWatcher
    /\ IdleLogin
    /\ IdleCatalog
    /\ IdleFanout
    /\ IdleGetCred
    /\ IdleModelInfo
    /\ IdleCtl
    /\ applyConfig \in [VaultClient : BOOLEAN, CredentialStore : BOOLEAN]
    /\ applyStore \in {s \in ApplyStores(applyConfig) : s.updates = {}}
    /\ applyCall \in {c \in ApplyCalls : c.Controllers = {} /\ ~c.Revoked}
    /\ applyEnv = NoEnv
    /\ applySame = TRUE
    /\ applyOnce = applyStore
    /\ applyPc = "none"
    /\ \E held \in InitialControllers :
          /\ controllerRows =
                [n \in ControllerNames |->
                    IF n \in held
                    THEN ControllerRow(applyConfig.CredentialStore,
                                       [AdminUser |-> "admin",
                                        AdminPassword |-> "secret"])
                    ELSE NoControllerRow]
          /\ controllerSecrets =
                IF applyConfig.CredentialStore THEN held ELSE {}

NextSecret ==
    \/ ApplyUpdateCredential
    \/ \E n \in ControllerNames : AddController(n)

SpecSecret == InitSecret /\ [][NextSecret]_vars

(***************************************************************************)
(* C18: with a vault configured the credential row of the catalog holds no *)
(* attributes and, once written, says the attributes are in the vault;     *)
(* with a credential store configured no controller row of the catalog     *)
(* holds an admin user or password.                                        *)
(***************************************************************************)
C18_NoSecretInCatalog ==
    /\ applyConfig.VaultClient =>
          /\ applyStore.row.Attributes = NoCredential
          /\ applyStore.row.found => applyStore.row.AttributesInVault
    /\ applyConfig.CredentialStore =>
          \A n \in ControllerNames :
              /\ controllerRows[n].AdminUser = ""
              /\ controllerRows[n].AdminPassword = ""

\* with both stores configured UpdateCredential wrote a new credential and
\* AddController added a controller given with a password
C18_Witness ==
    /\ applyConfig.VaultClient
    /\ applyConfig.CredentialStore
    /\ applyPc # "none"
    /\ applyStore.row.content = 2
    /\ applyStore.secret = 2
    /\ controllerRows["c2"].found
    /\ "c2" \in controllerSecrets

(***************************************************************************)
(* Pool and JEM (internal/jem): the reference count of the pool            *)
(***************************************************************************)
MaxJEMs == 3
MaxPoolOps == 6

JEMs == 1..MaxJEMs

\* the instances made so far are the first of JEMs
NewJEM == Cardinality({j \in JEMs : jem[j] # "none"}) + 1

\* Pool.decRef: the count, the calls of connCache.Close and whether it panics
decRef(count, closes) ==
    [refCount |-> count - 1,
     cacheCloses |-> IF count - 1 = 0 THEN closes + 1 ELSE closes,
     panic |-> count - 1 < 0]

PoolCalled(op, j, panic) ==
    /\ poolCall' = [op |-> op, j |-> j, panic |-> panic]
    /\ poolOps' = poolOps + 1

\* Pool.JEM: panics on a closed pool, before it counts the reference
PoolJEM ==
    /\ poolOps < MaxPoolOps
    /\ IF poolClosed
       THEN /\ PoolCalled("Pool.JEM", 0, TRUE)
            /\ UNCHANGED <<refCount, jem>>
       ELSE /\ NewJEM \in JEMs
            /\ refCount' = refCount + 1
            /\ jem' = [jem EXCEPT ![NewJEM] = "open"]
            /\ PoolCalled("Pool.JEM", NewJEM, FALSE)
    /\ UNCHANGED <<poolClosed, cacheCloses, cloneOfClosed>>
    /\ UNCHANGED notPoolVars

\* JEM.Clone: the reference is counted, then the database of the receiver is
\* cloned; the DB of a closed instance is nil, and its clone panics or not
JEMClone(j) ==
    /\ poolOps < MaxPoolOps
    /\ jem[j] # "none"
    /\ refCount' = refCount + 1
    /\ cloneOfClosed' = (cloneOfClosed \/ jem[j] = "closed")
    /\ \/ /\ NewJEM \in JEMs
          /\ jem' = [jem EXCEPT ![NewJEM] = "open"]
          /\ PoolCalled("JEM.Clone", j, FALSE)
       \/ /\ jem[j] = "closed"
          /\ jem' = jem
          /\ PoolCalled("JEM.Clone", j, TRUE)
    /\ UNCHANGED <<poolClosed, cacheCloses>>
    /\ UNCHANGED notPoolVars

\* JEM.Close
JEMClose(j) ==
    /\ poolOps < MaxPoolOps
    /\ jem[j] # "none"
    /\ IF jem[j] = "closed"
       THEN /\ PoolCalled("JEM.Close", j, FALSE)
            /\ UNCHANGED <<refCount, jem, cacheCloses>>
       ELSE LET d == decRef(refCount, cacheCloses)
            IN /\ jem' = [jem EXCEPT ![j] = "closed"]
               /\ refCount' = d.refCount
               /\ cacheCloses' = d.cacheCloses
               /\ PoolCalled("JEM.Close", j, d.panic)
    /\ UNCHANGED <<poolClosed, cloneOfClosed>>
    /\ UNCHANGED notPoolVars

\* Pool.Close
PoolClose ==
    /\ poolOps < MaxPoolOps
    /\ IF poolClosed
       THEN /\ PoolCalled("Pool.Close", 0, FALSE)
            /\ UNCHANGED <<refCount, cacheCloses, poolClosed>>
       ELSE LET d == decRef(refCount, cacheCloses)
            IN /\ refCount' = d.refCount
               /\ cacheCloses' = d.cacheCloses
               /\ poolClosed' = ~d.panic
               /\ PoolCalled("Pool.Close", 0, d.panic)
    /\ UNCHANGED <<jem, cloneOfClosed>>
    /\ UNCHANGED notPoolVars

\* the pool NewPool returns: its own reference, the instance it used closed
InitPool ==
    /\ IdleShuffle
    /\ IdleAddModel
    /\ IdleCredential
    /\ IdleAccess
    /\ IdleLookup
    /\ IdleGroup
    /\ IdleApply
    /\ IdleCache
    /\ IdleWatcher
    /\ IdleLogin
    /\ IdleCatalog
    /\ IdleFanout
    /\ IdleGetCred
    /\ IdleModelInfo
    /\ IdleCtl
    /\ poolClosed = FALSE
    /\ refCount = 1
    /\ jem = [j \in JEMs |-> "none"]
    /\ cacheCloses = 0
    /\ poolCall = NoPoolCall
    /\ poolOps = 0
    /\ cloneOfClosed = FALSE

NextPool ==
    \/ PoolJEM
    \/ \E j \in JEMs : JEMClone(j)
    \/ \E j \in JEMs : JEMClose(j)
    \/ PoolClose

SpecPool == InitPool /\ [][NextPool]_vars

AllJEMsClosed == \A j \in JEMs : jem[j] # "open"

\* the count and the cache as the pool is meant to keep them
PoolInvariant ==
    /\ refCount >= 0
    /\ cacheCloses <= 1
    /\ cacheCloses = 1 <=> (poolClosed /\ AllJEMsClosed)

\* the call of this step is a Close of what was closed already
RepeatedClose ==
    \/ poolCall'.op = "Pool.Close" /\ poolClosed
    \/ poolCall'.op = "JEM.Close" /\ jem[poolCall'.j] = "closed"

(***************************************************************************)
(* C25 as the specification states it: across any sequence of Pool.JEM,    *)
(* JEM.Clone, JEM.Close and Pool.Close calls the reference count is never   *)
(* negative, the connection cache is closed exactly once, when the pool    *)
(* has been closed and every instance has been closed, never while an      *)
(* unclosed instance exists, and a repeated Close changes nothing.         *)
(***************************************************************************)
C25_CacheClosedWithLastClose ==
    [][/\ PoolInvariant'
       /\ RepeatedClose =>
             UNCHANGED <<poolClosed, refCount, jem, cacheCloses>>]_vars

\* what holds of the code: the same, as long as Clone is called on
\* instances that are not closed
PoolInvariantOfOpenClones ==
    [][/\ ~cloneOfClosed' => PoolInvariant'
       /\ refCount' >= 0
       /\ ~poolCall'.panic \/ poolCall'.op \in {"Pool.JEM", "JEM.Clone"}
       /\ RepeatedClose =>
             UNCHANGED <<poolClosed, refCount, jem, cacheCloses>>]_vars

(***************************************************************************)
(* The connection cache (internal/apiconn), as JEM.OpenAPIFromDoc uses it: *)
(* open calls for one controller UUID                                      *)
(***************************************************************************)
MaxOpeners == 3
MaxDials == 3

Openers == 1..MaxOpeners

NoOpen == [pc |-> "idle", joined |-> 0, res |-> ""]

\* an open that dials whenever no connection is cached
StartsDialUncollapsed(entry) == entry.state # "conn"

\* whether an open runs the dialer: no connection is cached and no dial is
\* under way for the UUID
StartsDial(entry) == entry.state = "none"

\* what an open returns for the outcome of a dial: the connection, or the
\* error wrapped as a failed connection
OpenResult(outcome) ==
    IF outcome = "ok" THEN "conn" ELSE "cannot connect to API"

\* open(uuid, dialer) by caller c: the cached connection, a dial of its own,
\* or the wait for the dial under way
OpenAPI(c) ==
    /\ openCall[c].pc = "idle"
    /\ IF cacheEntry.state = "conn"
       THEN /\ openCall' = [openCall EXCEPT ![c] =
                   [pc |-> "done", joined |-> cacheEntry.dial,
                    res |-> OpenResult("ok")]]
            /\ UNCHANGED <<cacheEntry, dialCount>>
       ELSE IF StartsDial(cacheEntry)
       THEN /\ dialCount < MaxDials
            /\ dialCount' = dialCount + 1
            /\ cacheEntry' = [state |-> "dialing", dial |-> dialCount + 1]
            /\ openCall' = [openCall EXCEPT ![c] =
                   [pc |-> "dialing", joined |-> dialCount + 1, res |-> ""]]
       ELSE /\ openCall' = [openCall EXCEPT ![c] =
                   [pc |-> "waiting", joined |-> cacheEntry.dial, res |-> ""]]
            /\ UNCHANGED <<cacheEntry, dialCount>>
    /\ UNCHANGED dialResult
    /\ UNCHANGED notCacheVars

DialOutcomes == {"ok", "failed"}

\* the dialer of caller c returns: the connection is cached, or the entry is
\* evicted
Dialed(c) ==
    /\ openCall[c].pc = "dialing"
    /\ \E outcome \in DialOutcomes :
          /\ dialResult' = [dialResult EXCEPT ![openCall[c].joined] = outcome]
          /\ cacheEntry' =
                IF cacheEntry.dial # openCall[c].joined THEN cacheEntry
                ELSE IF outcome = "ok"
                THEN [state |-> "conn", dial |-> openCall[c].joined]
                ELSE NoEntryCached
          /\ openCall' = [openCall EXCEPT ![c] =
                [@ EXCEPT !.pc = "done", !.res = OpenResult(outcome)]]
    /\ UNCHANGED dialCount
    /\ UNCHANGED notCacheVars

\* a caller that waited is given the outcome of the dial it waited for
Waited(c) ==
    /\ openCall[c].pc = "waiting"
    /\ dialResult[openCall[c].joined] # ""
    /\ openCall' = [openCall EXCEPT ![c] =
          [@ EXCEPT !.pc = "done",
                    !.res = OpenResult(dialResult[openCall[c].joined])]]
    /\ UNCHANGED <<cacheEntry, dialCount, dialResult>>
    /\ UNCHANGED notCacheVars

\* a caller calls again
OpenAgain(c) ==
    /\ openCall[c].pc = "done"
    /\ openCall' = [openCall EXCEPT ![c] = NoOpen]
    /\ UNCHANGED <<cacheEntry, dialCount, dialResult>>
    /\ UNCHANGED notCacheVars

InitCache ==
    /\ IdleShuffle
    /\ IdleAddModel
    /\ IdleCredential
    /\ IdleAccess
    /\ IdleLookup
    /\ IdleGroup
    /\ IdleApply
    /\ IdlePool
    /\ IdleWatcher
    /\ IdleLogin
    /\ IdleCatalog
    /\ IdleFanout
    /\ IdleGetCred
    /\ IdleModelInfo
    /\ IdleCtl
    /\ cacheEntry = NoEntryCached
    /\ dialCount = 0
    /\ dialResult = [n \in 1..MaxDials |-> ""]
    /\ openCall = [c \in Openers |-> NoOpen]

NextCache ==
    \/ \E c \in Openers : OpenAPI(c)
    \/ \E c \in Openers : Dialed(c)
    \/ \E c \in Openers : Waited(c)
    \/ \E c \in Openers : OpenAgain(c)

SpecCache == InitCache /\ [][NextCache]_vars

\* the callers whose open call is under way, its dial not returned
Opening ==
    {c \in Openers : /\ openCall[c].pc \in {"dialing", "waiting"}
                     /\ dialResult[openCall[c].joined] = ""}

(***************************************************************************)
(* C26: open calls for one controller UUID that are under way together,    *)
(* no connection being cached, run the dialer once: they wait for the same *)
(* dial, one of them runs it, and each returns the outcome of that dial.   *)
(***************************************************************************)
C26_ConcurrentOpensDialOnce ==
    /\ \A c, d \in Opening : openCall[c].joined = openCall[d].joined
    /\ Cardinality({c \in Opening : openCall[c].pc = "dialing"}) <= 1
    /\ Opening # {} => \A c \in Opening : openCall[c].joined = dialCount
    /\ \A c \in Openers :
          openCall[c].pc = "done" =>
              /\ openCall[c].joined \in 1..dialCount
              /\ openCall[c].res = OpenResult(dialResult[openCall[c].joined])

\* three callers have opened together: one dial was run, it failed, and
\* one caller has been given the error while another still waits for it
C26_Witness ==
    /\ dialCount = 1
    /\ dialResult[1] = "failed"
    /\ \A c \in Openers : openCall[c].joined = 1
    /\ \E c, d, e \in Openers :
          /\ openCall[c].pc = "done" /\ openCall[c].res = "cannot connect to API"
          /\ d # c /\ openCall[d].pc = "done" /\ openCall[d].res = openCall[c].res
          /\ openCall[e].pc = "waiting"

(***************************************************************************)
(* JEM.WatchAllModelSummaries and modelSummaryWatcher.loop (internal/jem)  *)
(***************************************************************************)
MaxWatchCalls == 2
MaxBatches == 2

ModelUUIDs == {1, 2}
\* the summaries a controller reports of a model; 0 is none published
Summaries == {1, 2}

WatchOutcomes == {"open", "unsupported", "watch", "ok"}

\* JEM.WatchAllModelSummaries: the error of the watch call is not returned,
\* and the watcher is started with the id it came with
WatchAllModelSummaries ==
    /\ watchCalls < MaxWatchCalls
    /\ watcher.pc # "running"
    /\ watchCalls' = watchCalls + 1
    /\ \E outcome \in WatchOutcomes :
          IF outcome = "open"
          THEN /\ watchRes' = "cannot connect to API"
               /\ UNCHANGED <<watcher, watchConn>>
          ELSE IF outcome = "unsupported"
          THEN /\ watchRes' = "model summary watcher not supported by the controller"
               /\ watchConn' = [watchConn EXCEPT !.opened = @ + 1]
               /\ UNCHANGED watcher
          ELSE /\ watchRes' = ""
               /\ watchConn' = [watchConn EXCEPT !.opened = @ + 1]
               /\ watcher' = [NoWatcher EXCEPT
                      !.pc = "running",
                      !.id = IF outcome = "ok" THEN "id" ELSE ""]
    /\ UNCHANGED <<hub, watchCtx>>
    /\ UNCHANGED notWatcherVars

\* the loop returns: the deferred cleanup closes the connection
LoopReturns(cause) ==
    /\ watcher' = [watcher EXCEPT !.pc = "ended", !.cause = cause]
    /\ watchConn' = [watchConn EXCEPT !.closed = @ + 1]
    /\ UNCHANGED hub

\* w.pubsub.Publish of each summary of a batch sorted by UUID: the hub keeps
\* the last summary of each model
Publish(batch) ==
    [m \in ModelUUIDs |-> IF batch[m] = 0 THEN hub[m] ELSE batch[m]]

\* one turn of modelSummaryWatcher.loop
LoopNext ==
    /\ watcher.pc = "running"
    /\ IF watchCtx THEN LoopReturns("ctx")
       ELSE \/ LoopReturns("error")
            \/ /\ watcher.id = "id" /\ ~watcher.stopped
               /\ watcher.batches < MaxBatches
               /\ \E batch \in [ModelUUIDs -> {0} \cup Summaries] :
                     hub' = Publish(batch)
               /\ watcher' = [watcher EXCEPT !.batches = @ + 1]
               /\ UNCHANGED watchConn
    /\ UNCHANGED <<watchCtx, watchCalls, watchRes>>
    /\ UNCHANGED notWatcherVars

\* modelSummaryWatcher.stop, the function WatchAllModelSummaries returned
WatcherStop ==
    /\ watcher.pc # "none"
    /\ ~watcher.stopped
    /\ watcher' = [watcher EXCEPT !.stopped = TRUE]
    /\ UNCHANGED <<hub, watchConn, watchCtx, watchCalls, watchRes>>
    /\ UNCHANGED notWatcherVars

\* the context the watcher was started with ends
WatchContextDone ==
    /\ ~watchCtx
    /\ watchCalls > 0
    /\ watchCtx' = TRUE
    /\ UNCHANGED <<watcher, hub, watchConn, watchCalls, watchRes>>
    /\ UNCHANGED notWatcherVars

InitWatcher ==
    /\ IdleShuffle
    /\ IdleAddModel
    /\ IdleCredential
    /\ IdleAccess
    /\ IdleLookup
    /\ IdleGroup
    /\ IdleApply
    /\ IdlePool
    /\ IdleCache
    /\ IdleLogin
    /\ IdleCatalog
    /\ IdleFanout
    /\ IdleGetCred
    /\ IdleModelInfo
    /\ IdleCtl
    /\ watcher = NoWatcher
    /\ hub = [m \in ModelUUIDs |-> 0]
    /\ watchConn = [opened |-> 0, closed |-> 0]
    /\ watchCtx = FALSE
    /\ watchCalls = 0
    /\ watchRes = ""

NextWatcher ==
    \/ WatchAllModelSummaries
    \/ LoopNext
    \/ WatcherStop
    \/ WatchContextDone

\* the goroutine of the loop is scheduled; callers call as they choose
SpecWatcher == InitWatcher /\ [][NextWatcher]_vars /\ WF_vars(LoopNext)

\* the loop has ended on an error of next
LoopFailed == watcher.pc = "ended" /\ watcher.cause = "error"

(***************************************************************************)
(* C27 as the specification states it: when reading the next batch fails   *)
(* the loop closes the connection and then reopens the watcher: a watcher  *)
(* runs again.                                                             *)
(***************************************************************************)
C27_LoopReopensAfterError == LoopFailed ~> watcher.pc = "running"

\* what holds of the code: a loop that ends closes its connection once and
\* stays ended until WatchAllModelSummaries is called again
LoopEndsAndCloses ==
    [][/\ (watcher.pc = "running" /\ watcher'.pc = "ended")
             => watchConn'.closed = watchConn.closed + 1
       /\ watchConn'.closed # watchConn.closed
             => watcher.pc = "running" /\ watcher'.pc = "ended"
       /\ (watcher.pc = "ended" /\ watcher'.pc = "running")
             => watchCalls' = watchCalls + 1]_vars

\* C40: every connection borrowed by WatchAllModelSummaries is released: when
\* the controller does not support summary watchers or starting the watcher
\* fails, the call returns an error, starts no watcher loop and releases the
\* connection; otherwise the loop releases the connection exactly once when
\* it exits.
C40_EveryConnectionReleased ==
    /\ watcher.pc = "running"
          => /\ watcher.id = "id"
             /\ watchConn.opened = watchConn.closed + 1
    /\ watcher.pc # "running" => watchConn.opened = watchConn.closed

\* The call for a controller without support for the watcher has returned
\* its error and no loop runs, and the connection it opened is not closed.
UnsupportedLeavesConnectionOpen ==
    /\ watchRes = "model summary watcher not supported by the controller"
    /\ watcher.pc = "none"
    /\ watchConn = [opened |-> 1, closed |-> 0]

\* The call whose watch request failed has returned no error and its loop
\* runs without a watcher id.
LoopStartedWithoutWatcher ==
    /\ watchRes = ""
    /\ watcher.pc = "running"
    /\ watcher.id = ""

(***************************************************************************)
(* The token generator of a login session: JWTGenerator.MakeLoginToken and *)
(* MakeToken.  The generator's code is not among the sources; its steps,   *)
(* their order and their errors are those its tests drive                  *)
(* (TestJWTGeneratorMakeLoginToken, TestJWTGeneratorMakeToken), and the    *)
(* session states are those of the specification: Unauthenticated,         *)
(* Authenticated, TokenIssued, Refreshing, with a failure at any step      *)
(* returning the session to Unauthenticated.                               *)
(***************************************************************************)
MaxLogins == 3

LoginUsers == {"eve@external"}

LoginClouds == {"test-cloud", "other-cloud"}

ModelLevels == {"", "read", "admin"}

ControllerLevels == {"login", "superuser"}

CloudLevels == {"", "add-model"}

StepOutcomes == {"ok", "a test error"}

\* The checks of a login, in the order in which the generator makes them.
LoginChecks == {"authenticate", "model", "controller", "lookup", "cloud"}

StepFailsNever(outcome) == FALSE

\* A step whose collaborator returned an error fails the call.
StepFails(outcome) == outcome # "ok"

Passed(step, outcome) == IF outcome = "ok" THEN {step} ELSE {}

\* A failure at any step: the error is returned, no token is issued and the
\* session is unauthenticated again.
LoginFails(err) ==
    /\ session' = NoSession
    /\ loginCall' = [loginCall EXCEPT !.step = "", !.err = err, !.clouds = {}]
    /\ UNCHANGED <<jwtParams, tokens>>

\* MakeLoginToken: the call starts by authenticating the login request.
MakeLoginToken ==
    /\ loginCall.step = ""
    /\ logins < MaxLogins
    /\ logins' = logins + 1
    /\ \E u \in LoginUsers, outcome \in StepOutcomes :
          IF StepFails(outcome)
          THEN /\ session' = NoSession
               /\ loginCall' = [NoLoginCall EXCEPT !.op = "login", !.err = outcome,
                                                   !.before = tokens]
          ELSE /\ session' = [state |-> "Authenticated", user |-> u, access |-> {}]
               /\ loginCall' = [NoLoginCall EXCEPT !.op = "login", !.step = "model",
                                   !.passed = Passed("authenticate", outcome),
                                   !.before = tokens]
    /\ UNCHANGED <<jwtParams, tokens>>
    /\ UNCHANGED notLoginVars

GetUserModelAccess ==
    /\ loginCall.step = "model"
    /\ \E level \in ModelLevels, outcome \in StepOutcomes :
          IF StepFails(outcome)
          THEN LoginFails(outcome)
          ELSE /\ session' = [session EXCEPT !.access = @ \cup {<<"model", level>>}]
               /\ loginCall' = [loginCall EXCEPT !.step = "controller",
                                   !.passed = @ \cup Passed("model", outcome)]
               /\ UNCHANGED <<jwtParams, tokens>>
    /\ UNCHANGED logins
    /\ UNCHANGED notLoginVars

GetUserControllerAccess ==
    /\ loginCall.step = "controller"
    /\ \E level \in ControllerLevels, outcome \in StepOutcomes :
          IF StepFails(outcome)
          THEN LoginFails(outcome)
          ELSE /\ session' = [session EXCEPT !.access = @ \cup {<<"controller", level>>}]
               /\ loginCall' = [loginCall EXCEPT !.step = "lookup",
                                   !.passed = @ \cup Passed("controller", outcome)]
               /\ UNCHANGED <<jwtParams, tokens>>
    /\ UNCHANGED logins
    /\ UNCHANGED notLoginVars

\* The lookup of the controller in the database gives the clouds of its
\* regions.
LookupController ==
    /\ loginCall.step = "lookup"
    /\ \E clouds \in SUBSET LoginClouds, outcome \in StepOutcomes :
          IF StepFails(outcome)
          THEN LoginFails("failed to fetch controller")
          ELSE /\ loginCall' = [loginCall EXCEPT !.step = "cloud", !.clouds = clouds,
                                   !.passed = @ \cup Passed("lookup", outcome)]
               /\ UNCHANGED <<session, jwtParams, tokens>>
    /\ UNCHANGED logins
    /\ UNCHANGED notLoginVars

\* The access of the user to the cloud of every region of the controller.
GetUserCloudAccess ==
    /\ loginCall.step = "cloud"
    /\ \E levels \in [loginCall.clouds -> CloudLevels] :
       \E outcome \in IF loginCall.clouds = {} THEN {"ok"} ELSE StepOutcomes :
          IF StepFails(outcome)
          THEN LoginFails("failed to check user's cloud access")
          ELSE /\ session' = [session EXCEPT !.access =
                                 @ \cup {<<c, levels[c]>> : c \in loginCall.clouds}]
               /\ loginCall' = [loginCall EXCEPT !.step = "sign", !.clouds = {},
                                   !.passed = @ \cup Passed("cloud", outcome)]
               /\ UNCHANGED <<jwtParams, tokens>>
    /\ UNCHANGED logins
    /\ UNCHANGED notLoginVars

\* The JWT service signs the access computed; of a login and of a refresh.
NewJWT ==
    /\ loginCall.step = "sign"
    /\ \E outcome \in StepOutcomes :
          IF StepFails(outcome)
          THEN LoginFails(outcome)
          ELSE /\ jwtParams' = [user |-> session.user, access |-> session.access]
               /\ tokens' = tokens + 1
               /\ session' = [session EXCEPT !.state = "TokenIssued"]
               /\ loginCall' = [loginCall EXCEPT !.step = "", !.token = TRUE,
                                   !.passed = @ \cup Passed("sign", outcome)]
    /\ UNCHANGED logins
    /\ UNCHANGED notLoginVars

\* MakeToken: permissions additional to those of the login are checked and
\* the token is signed again; without a login there is nothing to refresh.
MakeToken ==
    /\ loginCall.step = ""
    /\ logins < MaxLogins
    /\ logins' = logins + 1
    /\ IF session.state # "TokenIssued"
       THEN /\ session' = NoSession
            /\ loginCall' = [NoLoginCall EXCEPT !.op = "refresh",
                                !.err = "user not authenticated", !.before = tokens]
       ELSE /\ session' = [session EXCEPT !.state = "Refreshing"]
            /\ loginCall' = [NoLoginCall EXCEPT !.op = "refresh", !.step = "permission",
                                !.before = tokens]
    /\ UNCHANGED <<jwtParams, tokens>>
    /\ UNCHANGED notLoginVars

CheckPermission ==
    /\ loginCall.step = "permission"
    /\ \E granted \in SUBSET {<<"entity1", "access_level1">>},
          outcome \in StepOutcomes :
          IF StepFails(outcome)
          THEN LoginFails(outcome)
          ELSE /\ session' = [session EXCEPT !.access = @ \cup granted]
               /\ loginCall' = [loginCall EXCEPT !.step = "sign",
                                   !.passed = @ \cup Passed("permission", outcome)]
               /\ UNCHANGED <<jwtParams, tokens>>
    /\ UNCHANGED logins
    /\ UNCHANGED notLoginVars

InitLogin ==
    /\ IdleShuffle
    /\ IdleAddModel
    /\ IdleCredential
    /\ IdleAccess
    /\ IdleLookup
    /\ IdleGroup
    /\ IdleApply
    /\ IdlePool
    /\ IdleCache
    /\ IdleWatcher
    /\ IdleCatalog
    /\ IdleFanout
    /\ IdleGetCred
    /\ IdleModelInfo
    /\ IdleCtl
    /\ session = NoSession
    /\ loginCall = NoLoginCall
    /\ jwtParams = NoParams
    /\ tokens = 0
    /\ logins = 0

NextLogin ==
    \/ MakeLoginToken
    \/ GetUserModelAccess
    \/ GetUserControllerAccess
    \/ LookupController
    \/ GetUserCloudAccess
    \/ NewJWT
    \/ MakeToken
    \/ CheckPermission

SpecLogin == InitLogin /\ [][NextLogin]_vars

\* C28: a login issues a signed token only after authentication, the model
\* access check, the controller access check, the controller lookup and the
\* cloud access check have all succeeded; a failure at any of these steps or
\* in signing returns an error, issues no token and leaves the session
\* unauthenticated.
C28_TokenOnlyAfterAllChecks ==
    /\ (loginCall.op = "login" /\ loginCall.token)
          => /\ LoginChecks \subseteq loginCall.passed
             /\ loginCall.err = ""
             /\ tokens = loginCall.before + 1
    /\ (loginCall.op = "login" /\ session.state = "TokenIssued") => loginCall.token
    /\ (loginCall.op = "login" /\ loginCall.err # "")
          => /\ ~loginCall.token
             /\ tokens = loginCall.before
             /\ session = NoSession
    /\ (loginCall.op = "login" /\ loginCall.step # "")
          => tokens = loginCall.before

\* A login has issued a token, and the next login on the session has failed
\* at the cloud access check, its last check.
C28_Witness ==
    /\ loginCall.op = "login"
    /\ loginCall.err = "failed to check user's cloud access"
    /\ loginCall.passed = LoginChecks \ {"cloud"}
    /\ tokens = 1
    /\ jwtParams.user = "eve@external"
    /\ session = NoSession

(***************************************************************************)
(* JIMM.ImportModel and JIMM.UpdateMigratedModel on the catalog of models. *)
(***************************************************************************)
MaxCatalogOps == 3

CatModels == {"m1"}

CatControllers == {"c1", "c2"}

MissingController == "c9"

\* The outcomes of openfga.IsAdministrator for the caller.
AdminOutcomes == {"admin", "user", "error"}

\* User names as the caller or the controller gives them.
UserNames == {"alice@external", "carol@external", "bob", "not a user"}

\* names.IsValidUser
IsValidUser(name) == name # "not a user"

\* The domain of a user tag: what follows the @ of the name.
Domain(name) ==
    IF name \in {"alice@external", "carol@external"} THEN "external" ELSE ""

\* UserTag.IsLocal
IsLocal(name) == Domain(name) = ""

\* The users of the model on the controller, as ModelInfo reports them.
InfoUsers == {"bob", "carol@external"}

ImportFailures == {"none", "dial", "model info", "convert", "get user",
                   "credentials", "no credentials", "cloud", "region",
                   "add model", "watch"}

OwnerTag(newOwner, infoOwner) == IF newOwner # "" THEN newOwner ELSE infoOwner

\* The error of ImportModel before its grant of access, "" when it has none.
ImportErrorBeforeGrant(admin, ctl, newOwner, infoOwner, fail) ==
    CASE admin = "error" -> "failed to check access rights"
      [] admin = "user" -> "unauthorized"
      [] ctl \notin CatControllers -> "controller not found"
      [] fail = "dial" -> "dial failed"
      [] fail = "model info" -> "model not found"
      [] fail = "convert" -> "invalid model info"
      [] newOwner # "" /\ ~IsValidUser(newOwner)
            -> "invalid new username for new model owner"
      [] newOwner = "" /\ ~IsValidUser(infoOwner)
            -> "invalid username from original model owner"
      [] IsLocal(OwnerTag(newOwner, infoOwner))
            -> "cannot import model from local user, try --owner to switch the model owner"
      [] fail = "get user" -> "failed to get user"
      [] OTHER -> ""

\* The error of ImportModel between its grant of access and the end of
\* Database.AddModel, "" when it has none.
ImportErrorBeforeAdd(m, fail) ==
    CASE fail = "credentials" -> "failed to get cloud credentials"
      [] fail = "no credentials" -> "Failed to find cloud credential for user"
      [] fail = "cloud" -> "failed to get cloud"
      [] fail = "region" -> "cloud region not found"
      [] catalog[m].present -> "model already exists"
      [] fail = "add model" -> "failed to add model"
      [] OTHER -> ""

\* The error of ImportModel after the model is added: the watcher of the
\* model's deltas.
ImportErrorAfterAdd(fail) == IF fail = "watch" THEN "watch failed" ELSE ""

\* model.Users = nil
ImportedUsers(users) == {}

\* What one call of ImportModel does, from what its collaborators return: the
\* error it returns, whether it has granted the owner access and whether it
\* has added the model.
ImportOutcome(m, admin, ctl, newOwner, infoOwner, fail, grant) ==
    LET owner == OwnerTag(newOwner, infoOwner)
        early == ImportErrorBeforeGrant(admin, ctl, newOwner, infoOwner, fail)
        late  == ImportErrorBeforeAdd(m, fail)
    IN  IF early # ""
        THEN [controller |-> ctl, err |-> early, granted |-> FALSE, added |-> FALSE,
              owner |-> IF early \in {"failed to get user",
                           "cannot import model from local user, try --owner to switch the model owner"}
                        THEN owner ELSE ""]
        ELSE [controller |-> ctl, owner |-> owner, granted |-> grant = "ok",
              added |-> late = "",
              err |-> IF late # "" THEN late ELSE ImportErrorAfterAdd(fail)]

ImportOutcomes(m) ==
    {ImportOutcome(m, admin, ctl, newOwner, infoOwner, fail, grant) :
        admin \in AdminOutcomes, ctl \in CatControllers \cup {MissingController},
        newOwner \in {""} \cup UserNames, infoOwner \in UserNames \ {"alice@external"},
        fail \in ImportFailures, grant \in {"ok", "error"}}

ImportModel(m) ==
    /\ migOps < MaxCatalogOps
    /\ migOps' = migOps + 1
    /\ \E o \in ImportOutcomes(m) :
          /\ migCall' = [NoMigCall EXCEPT !.op = "import", !.model = m,
                            !.controller = o.controller, !.owner = o.owner,
                            !.err = o.err]
          /\ modelAdmins' = IF o.granted
                            THEN modelAdmins \cup {<<o.owner, m>>}
                            ELSE modelAdmins
          /\ catalog' = IF o.added
                        THEN [catalog EXCEPT ![m] =
                                 [present |-> TRUE, owner |-> o.owner,
                                  controller |-> o.controller,
                                  users |-> ImportedUsers(InfoUsers)]]
                        ELSE catalog
    /\ UNCHANGED notCatalogVars

UpdateFailures == {"none", "get model", "get controller", "dial", "update"}

ModelKnownAlways(known) == TRUE

\* api.ModelInfo of the target controller returns no error: it knows the model.
ModelKnown(known) == known

\* The error of UpdateMigratedModel, "" when it has none.
UpdateError(admin, m, target, fail, known) ==
    CASE admin # "admin" -> "unauthorized"
      [] ~catalog[m].present -> "model not found"
      [] fail = "get model" -> "failed to get model"
      [] target \notin CatControllers -> "controller not found"
      [] fail = "get controller" -> "failed to get controller"
      [] fail = "dial" -> "dial failed"
      [] ~ModelKnown(known) -> "model not found on the controller"
      [] fail = "update" -> "failed to update model"
      [] OTHER -> ""

\* What one call of UpdateMigratedModel finds: whether the caller is an
\* administrator, whether the dial failed, whether the target knows the model,
\* and the error the call returns.
MigratedOutcomes(m) ==
    {[controller |-> target, admin |-> admin = "admin", dialOK |-> fail # "dial",
      known |-> known, err |-> UpdateError(admin, m, target, fail, known)] :
        admin \in AdminOutcomes, target \in CatControllers \cup {MissingController},
        fail \in UpdateFailures, known \in BOOLEAN}

UpdateMigratedModel(m) ==
    /\ migOps < MaxCatalogOps
    /\ migOps' = migOps + 1
    /\ \E o \in MigratedOutcomes(m) :
          /\ migCall' = [NoMigCall EXCEPT !.op = "update", !.model = m,
                            !.controller = o.controller, !.admin = o.admin,
                            !.dialOK = o.dialOK, !.known = o.known,
                            !.from = catalog[m].controller, !.err = o.err]
          /\ catalog' = IF o.err = ""
                        THEN [catalog EXCEPT ![m].controller = o.controller]
                        ELSE catalog
    /\ UNCHANGED modelAdmins
    /\ UNCHANGED notCatalogVars

InitCatalog ==
    /\ IdleShuffle
    /\ IdleAddModel
    /\ IdleCredential
    /\ IdleAccess
    /\ IdleLookup
    /\ IdleGroup
    /\ IdleApply
    /\ IdlePool
    /\ IdleCache
    /\ IdleWatcher
    /\ IdleLogin
    /\ IdleFanout
    /\ IdleGetCred
    /\ IdleModelInfo
    /\ IdleCtl
    /\ catalog = [m \in CatModels |-> NoModel]
    /\ modelAdmins = {}
    /\ migCall = NoMigCall
    /\ migOps = 0

NextCatalog ==
    \/ \E m \in CatModels : ImportModel(m)
    \/ \E m \in CatModels : UpdateMigratedModel(m)

SpecCatalog == InitCatalog /\ [][NextCatalog]_vars

\* A call of ImportModel has returned in this step.
ImportReturns == migOps' = migOps + 1 /\ migCall'.op = "import"

AdminsOf(admins, m) == {u \in UserNames : <<u, m>> \in admins}

\* C29: after a successful ImportModel the imported model is owned by the
\* named external user, only that owner holds administrator access on it, and
\* none of the users that had access on the controller is recorded; an import
\* whose owner would be a local user is rejected and adds no model.
C29_ImportedModelOwnedByOwnerOnly ==
    [][ImportReturns =>
          LET m == migCall'.model
          IN  /\ migCall'.err = ""
                    => /\ catalog'[m].present
                       /\ catalog'[m].owner = migCall'.owner
                       /\ ~IsLocal(migCall'.owner)
                       /\ AdminsOf(modelAdmins', m) = {migCall'.owner}
                       /\ catalog'[m].users = {}
              /\ (migCall'.owner # "" /\ IsLocal(migCall'.owner))
                    => /\ migCall'.err # ""
                       /\ catalog' = catalog]_vars

\* What holds of ImportModel: the owner and the users of the imported model,
\* and the rejection of a local owner; the administrators of the model are
\* left out.
ImportedModelOwner ==
    [][ImportReturns =>
          LET m == migCall'.model
          IN  /\ migCall'.err = ""
                    => /\ catalog'[m].present
                       /\ ~catalog[m].present
                       /\ catalog'[m].owner = migCall'.owner
                       /\ catalog'[m].controller = migCall'.controller
                       /\ ~IsLocal(migCall'.owner)
                       /\ catalog'[m].users = {}
                       /\ AdminsOf(modelAdmins', m)
                             \subseteq AdminsOf(modelAdmins, m) \cup {migCall'.owner}
              /\ (migCall'.owner # "" /\ IsLocal(migCall'.owner))
                    => /\ migCall'.err # ""
                       /\ catalog' = catalog
                       /\ modelAdmins' = modelAdmins]_vars

\* A successful import leaves the owner without administrator access: the
\* error of the grant is logged and not returned.
ImportedWithoutAdmin ==
    /\ migCall.op = "import"
    /\ migCall.err = ""
    /\ <<migCall.owner, migCall.model>> \notin modelAdmins

\* A successful import leaves a user who is not the owner with administrator
\* access: the grant of an earlier import that failed after it.
ImportedWithOtherAdmin ==
    /\ migCall.op = "import"
    /\ migCall.err = ""
    /\ AdminsOf(modelAdmins, migCall.model) \ {migCall.owner} # {}

\* A call of UpdateMigratedModel has returned in this step.
UpdateReturns == migOps' = migOps + 1 /\ migCall'.op = "update"

\* C30: UpdateMigratedModel changes the model's controller in the catalog only
\* after the target controller has confirmed that it knows the model; when the
\* caller is not a JIMM admin, the model or the target controller is not in
\* the catalog, the dial fails or the target does not know the model, the call
\* returns an error and the model's controller is unchanged.
C30_ControllerChangedOnlyWhenConfirmed ==
    [][/\ UpdateReturns =>
             LET m == migCall'.model
                 refused == \/ ~migCall'.admin
                            \/ ~catalog[m].present
                            \/ migCall'.controller \notin CatControllers
                            \/ ~migCall'.dialOK
                            \/ ~migCall'.known
             IN  /\ refused => migCall'.err # ""
                 /\ migCall'.err # "" => catalog' = catalog
                 /\ migCall'.err = ""
                       => catalog' = [catalog EXCEPT ![m].controller =
                                                        migCall'.controller]
       /\ \A m \in CatModels :
             (catalog[m].present /\ catalog'[m].controller # catalog[m].controller)
                => /\ UpdateReturns
                   /\ migCall'.model = m
                   /\ migCall'.known
                   /\ migCall'.admin]_vars

\* An imported model has been moved to another controller of the catalog
\* that knows it.
C30_Witness ==
    /\ migCall.op = "update"
    /\ migCall.err = ""
    /\ migCall.known
    /\ migCall.from # migCall.controller
    /\ catalog[migCall.model].present
    /\ catalog[migCall.model].controller = migCall.controller

\* A call of UpdateMigratedModel for a model of the catalog was refused
\* because the target controller does not know the model.
UpdateRefusedUnknown ==
    /\ migCall.op = "update"
    /\ migCall.err = "model not found on the controller"
    /\ catalog[migCall.model].present
    /\ catalog[migCall.model].controller = migCall.from
    /\ migCall.from # migCall.controller

\* C39: if ImportModel returns an error it has granted nothing: no
\* authorization tuple giving the new owner access to the model remains.
C39_FailedImportGrantsNothing ==
    [][(ImportReturns /\ migCall'.err # "") => modelAdmins' = modelAdmins]_vars

\* The errors ImportModel returns before it reaches SetModelAccess.
ErrorsBeforeGrant ==
    {"failed to check access rights", "unauthorized", "controller not found",
     "dial failed", "model not found", "invalid model info",
     "invalid new username for new model owner",
     "invalid username from original model owner",
     "cannot import model from local user, try --owner to switch the model owner",
     "failed to get user"}

\* What holds of a failed import: it grants nothing when it fails before
\* SetModelAccess, and nothing but the owner's access when it fails after.
FailedImportGrantsOwnerOnly ==
    [][(ImportReturns /\ migCall'.err # "") =>
          /\ migCall'.err \in ErrorsBeforeGrant => modelAdmins' = modelAdmins
          /\ modelAdmins' \subseteq
                modelAdmins \cup {<<migCall'.owner, migCall'.model>>}]_vars

\* An import has failed for a region that is not found and has left the owner
\* with administrator access on a model that is not in the catalog.
FailedImportLeftGrant ==
    /\ migCall.op = "import"
    /\ migCall.err = "cloud region not found"
    /\ ~catalog[migCall.model].present
    /\ <<migCall.owner, migCall.model>> \in modelAdmins

(***************************************************************************)
(* The fan-out of updateCredential, checkCredential and RevokeCredential   *)
(* (internal/jem): one goroutine per controller, each with a clone of the  *)
(* JEM, sending one result on a channel made with room for all of them,    *)
(* and the aggregator that receives them, mergeUpdateCredentialResults or  *)
(* the loop of RevokeCredential.                                           *)
(***************************************************************************)
MaxTasks == 2

FanoutKinds == {"update", "check", "revoke"}

Unbuffered(n) == 0

\* make(chan updateCredentialResult, len(controllers))
Capacity(n) == n

\* A send on the channel goes through when the buffer has room, or when the
\* aggregator is waiting at its select with nothing buffered.
CanSend ==
    \/ Len(foCh) < Capacity(Len(foTasks))
    \/ foMerge.pc = "waiting" /\ foCh = <<>>

mergeModelsLast(models, r) == r

\* models = append(models, r.models...)
mergeModels(models, r) == models \o r

NoTask == [sent |-> FALSE, closed |-> FALSE, models |-> <<>>, err |-> ""]

\* The operation starts a goroutine for each of its n controllers and waits.
\* checkCredential returns at once when it has no controller; the loops of
\* the others end at once when n is zero.
StartFanout(kind, n) ==
    /\ foKind = "none"
    /\ foKind' = kind
    /\ foTasks' = [t \in 1..n |-> NoTask]
    /\ foMerge' = [NoMerge EXCEPT !.pc = IF n = 0 THEN "returned" ELSE "waiting",
                                  !.n = n]
    /\ UNCHANGED <<foCh, foCtx>>
    /\ UNCHANGED notFanoutVars

\* What a goroutine may send: the model results and the error of its
\* controller; a goroutine of RevokeCredential sends an empty struct.
TaskResults(t) ==
    IF foKind = "revoke" THEN {[models |-> <<>>, err |-> ""]}
    ELSE {[models |-> <<t>>, err |-> ""],
          [models |-> <<t>>, err |-> "cannot update credentials"],
          [models |-> <<>>, err |-> "cannot connect to controller"]}

\* The goroutine of controller t sends its result.  A goroutine of
\* RevokeCredential sends in its first deferred function, which runs last,
\* after the deferred j.Close.
TaskSend(t) ==
    /\ t \in DOMAIN foTasks
    /\ ~foTasks[t].sent
    /\ foKind = "revoke" => foTasks[t].closed
    /\ CanSend
    /\ \E r \in TaskResults(t) :
          /\ foTasks' = [foTasks EXCEPT ![t].sent = TRUE, ![t].models = r.models,
                                        ![t].err = r.err]
          /\ foCh' = Append(foCh, [ctlPath |-> t, models |-> r.models, err |-> r.err])
    /\ UNCHANGED <<foKind, foMerge, foCtx>>
    /\ UNCHANGED notFanoutVars

\* The deferred j.Close of the goroutine of controller t.
TaskClose(t) ==
    /\ t \in DOMAIN foTasks
    /\ ~foTasks[t].closed
    /\ foKind # "revoke" => foTasks[t].sent
    /\ foTasks' = [foTasks EXCEPT ![t].closed = TRUE]
    /\ UNCHANGED <<foKind, foCh, foMerge, foCtx>>
    /\ UNCHANGED notFanoutVars

\* case r := <-ch: the aggregator receives a result; the last one ends the
\* loop and the call returns what it has merged.
MergeReceive ==
    /\ foMerge.pc = "waiting"
    /\ foCh # <<>>
    /\ LET r == Head(foCh)
           models == mergeModels(foMerge.models, r.models)
           first == mergeFirstError(foMerge.firstError, r.ctlPath, r.err)
       IN  foMerge' = [foMerge EXCEPT
               !.n = @ - 1,
               !.models = models,
               !.firstError = first,
               !.order = Append(@, r.ctlPath),
               !.pc = IF foMerge.n = 1 THEN "returned" ELSE @,
               !.res = IF foMerge.n = 1
                       THEN [models |-> models, err |-> first] ELSE @]
    /\ foCh' = Tail(foCh)
    /\ UNCHANGED <<foKind, foTasks, foCtx>>
    /\ UNCHANGED notFanoutVars

\* case <-ctx.Done(): the aggregator returns the error of the context and no
\* models.
MergeContextDone ==
    /\ foMerge.pc = "waiting"
    /\ foCtx
    /\ foMerge' = [foMerge EXCEPT
          !.pc = "returned",
          !.res = [models |-> <<>>,
                   err |-> TimedOut(IF foKind = "revoke" THEN "revoking"
                                    ELSE "checking")]]
    /\ UNCHANGED <<foKind, foTasks, foCh, foCtx>>
    /\ UNCHANGED notFanoutVars

\* The request context is cancelled or its deadline passes.
RequestContextEnds ==
    /\ foKind # "none"
    /\ ~foCtx
    /\ foCtx' = TRUE
    /\ UNCHANGED <<foKind, foTasks, foCh, foMerge>>
    /\ UNCHANGED notFanoutVars

InitFanout ==
    /\ IdleShuffle
    /\ IdleAddModel
    /\ IdleCredential
    /\ IdleAccess
    /\ IdleLookup
    /\ IdleGroup
    /\ IdleApply
    /\ IdlePool
    /\ IdleCache
    /\ IdleWatcher
    /\ IdleLogin
    /\ IdleCatalog
    /\ IdleGetCred
    /\ IdleModelInfo
    /\ IdleCtl
    /\ foKind = "none"
    /\ foTasks = <<>>
    /\ foCh = <<>>
    /\ foMerge = NoMerge
    /\ foCtx = FALSE

NextFanout ==
    \/ \E kind \in FanoutKinds, n \in 0..MaxTasks : StartFanout(kind, n)
    \/ \E t \in 1..MaxTasks : TaskSend(t)
    \/ \E t \in 1..MaxTasks : TaskClose(t)
    \/ MergeReceive
    \/ MergeContextDone
    \/ RequestContextEnds

\* The goroutines of the fan-out are scheduled; the request context ends or
\* not as its owner chooses.
SpecFanout ==
    /\ InitFanout
    /\ [][NextFanout]_vars
    /\ \A t \in 1..MaxTasks : WF_vars(TaskSend(t)) /\ WF_vars(TaskClose(t))

RECURSIVE ModelsInOrder(_)
\* The model results of the tasks, in the order given.
ModelsInOrder(order) ==
    IF order = <<>> THEN <<>>
    ELSE foTasks[Head(order)].models \o ModelsInOrder(Tail(order))

\* The error of the first task of the order that failed, "" when none did.
FirstFailing(order) ==
    LET failing == {i \in 1..Len(order) : foTasks[order[i]].err # ""}
    IN  IF failing = {} THEN ""
        ELSE LET i == CHOOSE k \in failing : \A l \in failing : k <= l
             IN  ControllerErr(order[i], foTasks[order[i]].err)

\* C33: when the request context is not cancelled, mergeUpdateCredentialResults
\* returns only after receiving exactly one result from each of the N tasks,
\* and it returns the model results of all N tasks together with the error of
\* the first failing task in arrival order ("" when no task failed).
C33_MergeReturnsAllResults ==
    (foKind \in {"update", "check"} /\ foMerge.pc = "returned" /\ ~foCtx)
       => /\ Len(foMerge.order) = Len(foTasks)
          /\ Range(foMerge.order) = DOMAIN foTasks
          /\ \A t \in DOMAIN foTasks : foTasks[t].sent
          /\ foCh = <<>>
          /\ foMerge.res.models = ModelsInOrder(foMerge.order)
          /\ foMerge.res.err = FirstFailing(foMerge.order)

\* Both tasks have failed and the task of the second controller has arrived
\* first: the merge has returned the models in the order of arrival and the
\* error of the second controller.
C33_Witness ==
    /\ foKind = "update"
    /\ ~foCtx
    /\ foMerge.pc = "returned"
    /\ foMerge.order = <<2, 1>>
    /\ foTasks[2].err = "cannot update credentials"
    /\ foTasks[1].err = "cannot connect to controller"
    /\ foMerge.res.models = <<2>>
    /\ foMerge.res.err = ControllerErr(2, "cannot update credentials")

\* A goroutine that has reached its send.
AtSend(t) ==
    /\ ~foTasks[t].sent
    /\ foKind = "revoke" => foTasks[t].closed

TasksDone == \A t \in DOMAIN foTasks : foTasks[t].sent /\ foTasks[t].closed

\* C34: every fan-out task can always deliver its result and terminate, even
\* when the aggregator has already returned because of a timeout or a
\* cancellation: the channel has capacity N for N tasks and each task sends
\* exactly once, so no task blocks forever and each task closes its cloned JEM.
C34_TasksDeliverAndTerminate ==
    /\ [](\A t \in DOMAIN foTasks : AtSend(t) => CanSend)
    /\ [](Len(foCh) + Len(foMerge.order)
             = Cardinality({t \in DOMAIN foTasks : foTasks[t].sent}))
    /\ (foKind # "none") ~> TasksDone

\* The aggregator has returned on the done context before any result was
\* received, and each of the two tasks has sent its result and closed its
\* JEM: the results stay in the channel.
C34_Witness ==
    /\ foKind \in FanoutKinds
    /\ foMerge.pc = "returned"
    /\ foMerge.res.err \in TimedOutErrors
    /\ foMerge.order = <<>>
    /\ Len(foTasks) = 2
    /\ TasksDone
    /\ Len(foCh) = 2

(***************************************************************************)
(* JEM.GetCredential (internal/jem): the credential is read from the       *)
(* database and the identity is checked against its owner and its read     *)
(* ACL; for a credential the database does not hold the identity is        *)
(* checked against the user of the path asked for.                         *)
(***************************************************************************)
\* auth.CheckIsUser: the identity is the user
CheckIsUser(id, user) == CheckACL(id, <<user>>)

\* auth.CheckCanRead: the identity is the owner or in the read ACL
CheckCanRead(id, cred) == CheckACL(id, <<cred.owner>> \o cred.read)

GetCredentialOutcomes == {"ok", "db failed"}

\* a GetCredential that reports a missing credential to anyone
GetCredentialUnchecked(held, db, id, cred) ==
    IF db # "ok" THEN "cannot get credential"
    ELSE IF ~held THEN "not found"
    ELSE IF ~CheckCanRead(id, cred) THEN "unauthorized"
    ELSE "ok"

\* the result of GetCredential for a credential the database holds or not
GetCredentialResult(held, db, id, cred) ==
    IF db # "ok" THEN "cannot get credential"
    ELSE IF ~held
    THEN IF ~CheckIsUser(id, cred.owner) THEN "unauthorized" ELSE "not found"
    ELSE IF ~CheckCanRead(id, cred) THEN "unauthorized"
    ELSE "ok"

GetCredential(held) ==
    /\ gcRes[held] = ""
    /\ \E db \in GetCredentialOutcomes :
          gcRes' = [gcRes EXCEPT ![held] = GetCredentialResult(held, db, gcID, gcCred)]
    /\ UNCHANGED <<gcID, gcCred>>
    /\ UNCHANGED notGetCredVars

InitGetCred ==
    /\ IdleShuffle
    /\ IdleAddModel
    /\ IdleCredential
    /\ IdleAccess
    /\ IdleLookup
    /\ IdleGroup
    /\ IdleApply
    /\ IdlePool
    /\ IdleCache
    /\ IdleWatcher
    /\ IdleLogin
    /\ IdleCatalog
    /\ IdleFanout
    /\ IdleModelInfo
    /\ IdleCtl
    /\ gcID \in Identities
    /\ gcCred \in [owner : Owners, read : InjSeqs(ACLNames, MaxACL)]
    /\ gcRes = [held \in BOOLEAN |-> ""]

NextGetCred == \E held \in BOOLEAN : GetCredential(held)

SpecGetCred == InitGetCred /\ [][NextGetCred]_vars

\* the identity is not the owner of the credential and is not on its read
\* ACL, by its user, by its groups or as everyone
Outsider ==
    LET names == {gcID.user} \cup gcID.groups \cup {"everyone"}
    IN  /\ gcCred.owner \notin names
        /\ Range(gcCred.read) \cap names = {}

\* C37: for an identity that is not the credential's owner and is not on its
\* read ACL, GetCredential returns Unauthorized both when the credential
\* exists and when it does not exist, so the response does not reveal
\* whether a credential exists in another user's space.
C37_OutsiderCannotTellExistence ==
    (Outsider /\ gcRes[TRUE] # "cannot get credential"
              /\ gcRes[FALSE] # "cannot get credential")
       => /\ gcRes[TRUE] \in {"", "unauthorized"}
          /\ gcRes[FALSE] \in {"", "unauthorized"}
          /\ (gcRes[TRUE] # "" /\ gcRes[FALSE] # "") => gcRes[TRUE] = gcRes[FALSE]

\* harry has asked for a credential of fred that only bob's group may read,
\* once with the credential in the database and once without it, and both
\* answers are Unauthorized
C37_Witness ==
    /\ gcID.user = "harry"
    /\ gcCred.owner = "fred"
    /\ gcCred.read = <<"bob-group">>
    /\ gcRes[TRUE] = "unauthorized"
    /\ gcRes[FALSE] = "unauthorized"

(***************************************************************************)
(* JIMM.ModelInfo: the information on a model of the catalog that its      *)
(* caller may see.                                                         *)
(***************************************************************************)
\* the users that may have an entry on the model
ModelUserNames == {"alice@external", "bob@external"}

\* the callers: the users of the model and a user with no entry
InfoCallers == ModelUserNames \cup {"dave@external"}

\* mi.Users: the entries of the users of the model
UserEntries(users) ==
    {[name |-> n, access |-> users[n]] : n \in {x \in DOMAIN users : users[x] # ""}}

\* the loop over mi.Users: the access of the entry of the caller, "" without one
ModelUserAccess(users, name) ==
    IF name \in DOMAIN users THEN users[name] ELSE ""

SeesMachinesAlways(access) == TRUE

\* modelUser.Access != "write" clears the machines
SeesMachines(access) == access = "write"

\* what ModelInfo returns
ModelInfoResult(u, superuser, found, users, machines) ==
    LET access == ModelUserAccess(users, u)
        call == [NoInfoCall EXCEPT !.u = u, !.superuser = superuser,
                                   !.found = found]
    IN  IF ~found THEN [call EXCEPT !.err = "not found"]
        ELSE IF superuser \/ access = "admin"
        THEN [call EXCEPT !.data = TRUE, !.users = UserEntries(users),
                          !.machines = machines]
        ELSE IF access = "" THEN [call EXCEPT !.err = "unauthorized"]
        ELSE [call EXCEPT !.data = TRUE,
                          !.users = {[name |-> u, access |-> access]},
                          !.machines = IF SeesMachines(access) THEN machines
                                       ELSE {}]

ModelInfo ==
    /\ \E u \in InfoCallers, superuser \in BOOLEAN, found \in BOOLEAN :
          miCall' = ModelInfoResult(u, superuser, found, miUsers, miMachines)
    /\ UNCHANGED <<miUsers, miMachines>>
    /\ UNCHANGED notModelInfoVars

InitModelInfo ==
    /\ IdleShuffle
    /\ IdleAddModel
    /\ IdleCredential
    /\ IdleAccess
    /\ IdleLookup
    /\ IdleGroup
    /\ IdleApply
    /\ IdlePool
    /\ IdleCache
    /\ IdleWatcher
    /\ IdleLogin
    /\ IdleCatalog
    /\ IdleFanout
    /\ IdleGetCred
    /\ IdleCtl
    /\ miUsers \in [ModelUserNames -> Levels]
    /\ miMachines \in {{}, {"machine-0"}}
    /\ miCall = NoInfoCall

NextModelInfo == ModelInfo

SpecModelInfo == InitModelInfo /\ [][NextModelInfo]_vars

\* C32: ModelInfo returns to a caller who is neither a superuser nor an admin
\* of the model only that caller's own user entry, and machine information
\* only if the caller has write access; a caller with no access on the model
\* gets Unauthorized and no model data.
C32_NonAdminSeesOwnEntryOnly ==
    (miCall.u # "" /\ miCall.found /\ ~miCall.superuser
        /\ ModelUserAccess(miUsers, miCall.u) # "admin")
       => LET access == ModelUserAccess(miUsers, miCall.u)
          IN  IF access = ""
              THEN /\ miCall.err = "unauthorized"
                   /\ ~miCall.data
                   /\ miCall.users = {} /\ miCall.machines = {}
              ELSE /\ miCall.err = ""
                   /\ miCall.users = {[name |-> miCall.u, access |-> access]}
                   /\ miCall.machines = IF access = "write" THEN miMachines ELSE {}

\* bob, who may read a model with a machine of which alice is an admin, has
\* got his own entry and no machine
C32_Witness ==
    /\ miCall.u = "bob@external"
    /\ ~miCall.superuser
    /\ miUsers["alice@external"] = "admin"
    /\ miUsers["bob@external"] = "read"
    /\ miMachines = {"machine-0"}
    /\ miCall.err = ""
    /\ miCall.users = {[name |-> "bob@external", access |-> "read"]}
    /\ miCall.machines = {}

\* dave, who has no entry on the model, has been refused
InfoRefused ==
    /\ miCall.u = "dave@external"
    /\ miCall.found
    /\ miCall.err = "unauthorized"
    /\ ~miCall.data

(***************************************************************************)
(* JIMM.AddController with the rows and the stores it writes: the          *)
(* credential store, the clouds, the regions and the controller row of the *)
(* database, and the relations.                                            *)
(***************************************************************************)
MaxCtlOps == 2

AdminPasswords == {"secret", "other"}

\* The clouds and regions a controller reports, the first of them the cloud
\* and region of the controller model.
ReportedClouds ==
    {{<<"aws", "r1">>},
     {<<"aws", "r1">>, <<"aws", "r2">>},
     {<<"aws", "r1">>, <<"gce", "r1">>}}

AddControllerFailures ==
    {"none", "dial", "summary", "cloud tag", "clouds", "put", "get cloud",
     "add cloud", "add region", "user access", "add controller"}

\* The error of AddController before it stores the credentials, "" for none.
AddControllerErrorBeforePut(admin, fail) ==
    CASE admin # "admin" -> "unauthorized"
      [] fail = "dial" -> "failed to dial the controller"
      [] fail = "summary" -> "failed to get model summary"
      [] fail = "cloud tag" -> "failed to parse the cloud tag"
      [] fail = "clouds" -> "failed to fetch controller clouds"
      [] OTHER -> ""

\* CredentialStore.PutControllerCredentials
PutControllerCredentials(secrets, name, password) ==
    [secrets EXCEPT ![name] = password]

\* The error of the function that runs in the transaction, "" for none.
TransactionError(rows, name, fail) ==
    CASE fail = "get cloud" -> "failed to fetch the cloud"
      [] fail = "add cloud" -> "failed to add cloud"
      [] fail = "add region" -> "failed to add cloud region"
      [] fail = "user access" -> "failed to update user cloud access"
      [] rows[name].found -> "already exists"
      [] fail = "add controller" -> "failed to add controller"
      [] OTHER -> ""

\* Database.Transaction: what the function wrote is kept when it returns no
\* error and undone when it returns one.
Transaction(before, after, err) == IF err = "" THEN after ELSE before

\* The relations AddController asks for after the transaction.
WantedRelations(name, reported) ==
    {<<r[1], name>> : r \in reported} \cup {<<"jimm", name>>}

AddControllerOutcome(name, password, admin, fail, reported, granted) ==
    LET early == AddControllerErrorBeforePut(admin, fail)
        call == [NoCtlCall EXCEPT !.name = name, !.password = password,
                                  !.admin = admin, !.fail = fail,
                                  !.held = ctlSecrets[name]]
        same == [rows |-> ctlRows, secrets |-> ctlSecrets, clouds |-> cloudRows,
                 regions |-> regionRows, relations |-> ctlRelations]
    IN  IF early # "" THEN same @@ [call |-> [call EXCEPT !.err = early]]
        ELSE IF credentialStore /\ fail = "put"
        THEN same @@ [call |-> [call EXCEPT
                                  !.err = "failed to store controller credentials"]]
        ELSE LET secrets == IF credentialStore
                            THEN PutControllerCredentials(ctlSecrets, name,
                                                          password)
                            ELSE ctlSecrets
                 err == TransactionError(ctlRows, name, fail)
                 before == [rows |-> ctlRows, clouds |-> cloudRows,
                            regions |-> regionRows]
                 after == [rows |-> [ctlRows EXCEPT ![name] =
                                        ControllerRow(credentialStore,
                                           [AdminUser |-> "admin",
                                            AdminPassword |-> password])],
                           clouds |-> cloudRows \cup {r[1] : r \in reported},
                           regions |-> regionRows \cup reported]
                 db == Transaction(before, after, err)
             IN  [rows |-> db.rows, secrets |-> secrets, clouds |-> db.clouds,
                  regions |-> db.regions,
                  relations |-> IF err = ""
                                THEN ctlRelations
                                        \cup (WantedRelations(name, reported)
                                                 \cap granted)
                                ELSE ctlRelations,
                  call |-> [call EXCEPT !.err = err]]

\* What a call for the name may come to, over its inputs: the password given,
\* the admin check, the step that fails, the clouds the controller reports
\* and the relations the relation store takes.
AddControllerResults(name) ==
    {AddControllerOutcome(name, password, admin, fail, reported, granted) :
        password \in AdminPasswords, admin \in AdminOutcomes,
        fail \in AddControllerFailures, reported \in ReportedClouds,
        granted \in {{}, WantedRelations(name, {<<"aws", "r1">>, <<"gce", "r1">>})}}

JimmAddController(name) ==
    /\ ctlOps < MaxCtlOps
    /\ ctlOps' = ctlOps + 1
    /\ \E o \in AddControllerResults(name) :
          /\ ctlRows' = o.rows
          /\ ctlSecrets' = o.secrets
          /\ cloudRows' = o.clouds
          /\ regionRows' = o.regions
          /\ ctlRelations' = o.relations
          /\ ctlCall' = o.call
    /\ UNCHANGED credentialStore
    /\ UNCHANGED notCtlVars

InitCtl ==
    /\ IdleShuffle
    /\ IdleAddModel
    /\ IdleCredential
    /\ IdleAccess
    /\ IdleLookup
    /\ IdleGroup
    /\ IdleApply
    /\ IdlePool
    /\ IdleCache
    /\ IdleWatcher
    /\ IdleLogin
    /\ IdleCatalog
    /\ IdleFanout
    /\ IdleGetCred
    /\ IdleModelInfo
    /\ credentialStore \in BOOLEAN
    /\ ctlRows = [n \in ControllerNames |-> NoControllerRow]
    /\ ctlSecrets = [n \in ControllerNames |-> ""]
    /\ cloudRows = {}
    /\ regionRows = {}
    /\ ctlRelations = {}
    /\ ctlCall = NoCtlCall
    /\ ctlOps = 0

NextCtl == \E name \in ControllerNames : JimmAddController(name)

SpecCtl == InitCtl /\ [][NextCtl]_vars

\* A call of AddController has returned in this step.
AddControllerReturns == ctlOps' = ctlOps + 1

\* C38: AddController for a controller name that already exists in the catalog
\* returns AlreadyExists and changes nothing: the existing controller's row,
\* the admin credentials held for that name in the secret store, and the
\* cloud and region rows are the same as before the call.
C38_ExistingNameChangesNothing ==
    [][(AddControllerReturns /\ ctlRows[ctlCall'.name].found)
          => /\ ctlCall'.err # ""
             /\ (ctlCall'.admin = "admin" /\ ctlCall'.fail = "none")
                   => ctlCall'.err = "already exists"
             /\ ctlRows' = ctlRows
             /\ ctlSecrets' = ctlSecrets
             /\ cloudRows' = cloudRows
             /\ regionRows' = regionRows]_vars

\* What holds of AddController for a name that exists: the error, and the
\* rows of the database and the relations as they were; the credential store
\* is left out.
ExistingNameKeepsCatalog ==
    [][(AddControllerReturns /\ ctlRows[ctlCall'.name].found)
          => /\ ctlCall'.err # ""
             /\ (ctlCall'.admin = "admin" /\ ctlCall'.fail = "none")
                   => ctlCall'.err = "already exists"
             /\ ctlRows' = ctlRows
             /\ cloudRows' = cloudRows
             /\ regionRows' = regionRows
             /\ ctlRelations' = ctlRelations
             /\ ctlSecrets' \in {ctlSecrets,
                                 [ctlSecrets EXCEPT ![ctlCall'.name] =
                                                       ctlCall'.password]}
             /\ ~credentialStore => ctlSecrets' = ctlSecrets]_vars

\* AddController has returned AlreadyExists for a controller whose password
\* the credential store held, and the store now holds the password of the
\* refused call.
SecretOverwritten ==
    /\ ctlCall.err = "already exists"
    /\ ctlRows[ctlCall.name].found
    /\ ctlCall.held = "secret"
    /\ ctlCall.password = "other"
    /\ ctlSecrets[ctlCall.name] = "other"

====
